---- MODULE Spec2Model ----
(***************************************************************************)
(* A model of the data-cleaning tool (App.tsx, CleaningPanel.tsx, the      *)
(* DataGrid filter engine, the OpenRouter service) and of its sibling, the *)
(* price updater.                                                          *)
(*                                                                         *)
(* Strings are sequences of one-character strings, so that trim() is a     *)
(* computation.  Column names are written with the field names of          *)
(* ParsedProfile: "username" is the column 用户名, "douyinId" 抖音号,      *)
(* "fans" 粉丝数, "bio" 简介, "contact" 联系方式 and "status" 状态.        *)
(***************************************************************************)
EXTENDS Integers, Sequences, FiniteSets, TLC

\* ------------------------------------------------------------------ bounds
MaxRows == 2        \* rows the table may hold
MaxBatch == 2       \* records in one extraction response
MaxGenId == 3       \* values the id generator may produce: 2..MaxGenId
MaxFileRows == 1    \* body rows of an imported file
MaxGridRows == 2    \* rows of the tables the filter engine is run on
MaxHeaders == 3     \* columns of an imported price sheet
MaxLines == 4       \* lines of the text a batched extraction is given
MaxChunk == 3       \* lines of a chunk

\* ----------------------------------------------------------------- strings
EMPTY == <<>>

RECURSIVE TrimStart(_)
TrimStart(s) == IF s # <<>> /\ Head(s) = " " THEN TrimStart(Tail(s)) ELSE s

RECURSIVE TrimEnd(_)
TrimEnd(s) ==
    IF s # <<>> /\ s[Len(s)] = " " THEN TrimEnd(SubSeq(s, 1, Len(s) - 1)) ELSE s

\* String.prototype.trim
Trim(s) == TrimEnd(TrimStart(s))

\* ------------------------------------------------------------- identifiers
\* An _internal_id is a JavaScript number or string; === and Set.has never
\* equate a number with a string.
NumId(n) == <<"number", n>>
StrId(s) == <<"string", s>>

\* Date.now() + Math.random(): nothing compares the sum with the ids in use
\* (near 1.7e12 a double keeps 12 fractional bits, so one millisecond offers
\* 4096 sums).  The generator is a choice among GenIds.
GenIds == {NumId(n) : n \in 2..MaxGenId}

\* ----------------------------------------------------------------- columns
HEADERS == <<"status", "username", "douyinId", "fans", "bio", "contact">>

DataColumns == {"username", "douyinId", "fans", "bio", "contact"}

\* The columns the grid renders as an input: every header except 状态.
EditableColumns == {HEADERS[i] : i \in 1..Len(HEADERS)} \ {"status"}

\* Values a user types into a cell of the column.
EditValues(column) ==
    CASE column = "username" -> {<<"n">>, <<"m">>}
      [] column = "douyinId" -> {<<"a">>}
      [] column = "bio"      -> {<<"p">>}
      [] OTHER               -> {EMPTY}

INITIAL_ROWS ==
    << [_internal_id |-> NumId(1), checkStatus |-> "unverified",
        username |-> <<"n">>, douyinId |-> <<"a">>, fans |-> EMPTY,
        bio |-> <<"p">>, contact |-> EMPTY] >>

VARIABLES
    app,          \* the App component mounted: "cleaner" or "price"
    rows,         \* rows of the cleaner App
    grid,         \* the filter state of the cleaner DataGrid
    apiKey,       \* CleaningPanel apiKey
    inputText,    \* CleaningPanel inputText
    isLoading,    \* CleaningPanel isLoading
    status,       \* CleaningPanel status: the message and its numbers
    debugLog,     \* CleaningPanel debugLog: "null", or whose raw response
    pc,           \* "idle", or the request the panel awaits
    existingIds,  \* the Set the awaiting extraction handler builds from the
                  \* rows prop it closed over when it started
    rowsToCheck,  \* the batch the awaiting relevance handler computed
    project,      \* project of the price App: headers and rows
    updater,      \* the state of PriceUpdater
    exportFile,   \* the sheet the cleaner DataGrid wrote last, <<>> if none
    extraction    \* what a request in flight keeps between its steps: the
                  \* chunks of a batched extraction and their outcomes, the
                  \* removal list between two commits, a reply and what the
                  \* recovery made of it

vars == <<app, rows, grid, apiKey, inputText, isLoading, status, debugLog, pc,
          existingIds, rowsToCheck, project, updater, exportFile, extraction>>

panel == <<apiKey, inputText, isLoading, status, debugLog, pc, existingIds,
           rowsToCheck>>

\* Which App is mounted never changes, and the other App's state is idle.
CleanerMounted ==
    app = "cleaner" /\ UNCHANGED <<app, project, updater, exportFile, extraction>>

\* The cleaner mounted, for the steps of the batched extraction.
BatchMounted ==
    app = "cleaner" /\ UNCHANGED <<app, project, updater, exportFile>>

PriceMounted ==
    /\ app = "price"
    /\ UNCHANGED <<app, rows, grid, apiKey, inputText, isLoading, status,
                   debugLog, pc, existingIds, rowsToCheck, exportFile,
                   extraction>>

\* ------------------------------------ DataGrid filter engine (part_001)
\* null and undefined are no strings: their one element is no character.
NULL == <<"null">>
UNDEFINED == <<"undefined">>

\* The sentinel '(空白)', a string like any other.
BLANK == <<"(", "-", ")">>

\* row[column]
CellOf(row, column) == IF column \in DOMAIN row THEN row[column] ELSE UNDEFINED

\* The normalisation written out in getUniqueStats and, twice, in
\* filteredData.
Normalize(val) ==
    IF val = NULL \/ val = UNDEFINED THEN BLANK
    ELSE IF Trim(val) = EMPTY THEN BLANK ELSE Trim(val)

\* The Map of getUniqueStats: normalized value -> number of rows.
getUniqueStats(data, column) ==
    LET vals == {Normalize(CellOf(data[i], column)) : i \in 1..Len(data)}
    IN  [v \in vals |->
           Cardinality({i \in 1..Len(data) :
                          Normalize(CellOf(data[i], column)) = v})]

AllValues(data, column) == DOMAIN getUniqueStats(data, column)

NoHeader == "(null)"

EmptyMap == [c \in {} |-> {}]

GridInit ==
    [openFilterHeader |-> NoHeader, activeFilters |-> EmptyMap,
     uniqueColumns |-> {}, tempFilterSelection |-> {}]

ResetFilters(g) == [g EXCEPT !.activeFilters = EmptyMap, !.uniqueColumns = {}]

\* The effect run after every render with a new data array.
DataEffect(g, data) == IF Len(data) = 0 THEN ResetFilters(g) ELSE g

\* The delete left out: the table of filters as it was.
DeleteKeySkipped(map, header) == map

\* delete newFilters[header]
DeleteKey(map, header) == [c \in DOMAIN map \ {header} |-> map[c]]

\* newFilters[header] = selection
SetKey(map, header, selection) ==
    [c \in DOMAIN map \cup {header} |->
        IF c = header THEN selection ELSE map[c]]

\* The value filters matched against the cells as they are stored.
PassesFiltersRaw(row, activeFilters) ==
    \A colKey \in DOMAIN activeFilters :
        CellOf(row, colKey) \in activeFilters[colKey]

\* Step 1 of filteredData: the value filters.
PassesFilters(row, activeFilters) ==
    \A colKey \in DOMAIN activeFilters :
        Normalize(CellOf(row, colKey)) \in activeFilters[colKey]

\* Step 2 of filteredData from row i on: seen[col] is seenMaps[col].
RECURSIVE Deduplicate(_, _, _, _)
Deduplicate(result, uniqueColumns, i, seen) ==
    IF i > Len(result) THEN <<>>
    ELSE
      LET row == result[i]
          isDuplicate == \E col \in uniqueColumns :
                            Normalize(CellOf(row, col)) \in seen[col]
      IN  IF isDuplicate
          THEN Deduplicate(result, uniqueColumns, i + 1, seen)
          ELSE <<row>> \o
               Deduplicate(result, uniqueColumns, i + 1,
                 [col \in uniqueColumns |->
                     seen[col] \cup {Normalize(CellOf(row, col))}])

\* filteredData with the rows that pass in the reverse order.
filteredDataReversed(data, activeFilters, uniqueColumns) ==
    LET result == SelectSeq(data, LAMBDA row : PassesFilters(row, activeFilters))
    IN  [i \in 1..Len(result) |-> result[Len(result) + 1 - i]]

\* filteredData without its second step.
filteredDataNoDedup(data, activeFilters, uniqueColumns) ==
    SelectSeq(data, LAMBDA row : PassesFilters(row, activeFilters))

\* filteredData with its two steps in the other order.
filteredDataDedupFirst(data, activeFilters, uniqueColumns) ==
    LET unique == IF uniqueColumns # {}
                  THEN Deduplicate(data, uniqueColumns, 1,
                                   [col \in uniqueColumns |-> {}])
                  ELSE data
    IN  SelectSeq(unique, LAMBDA row : PassesFilters(row, activeFilters))

filteredData(data, activeFilters, uniqueColumns) ==
    IF Len(data) = 0 THEN <<>>
    ELSE
      LET result == SelectSeq(data, LAMBDA row : PassesFilters(row, activeFilters))
      IN  IF uniqueColumns # {}
          THEN Deduplicate(result, uniqueColumns, 1,
                           [col \in uniqueColumns |-> {}])
          ELSE result

\* -------------------------------------------------------------- App.tsx
MarkUnverified(newRows) ==
    [i \in 1..Len(newRows) |-> [newRows[i] EXCEPT !.checkStatus = "unverified"]]

handleAddRows(prev, newRows) == prev \o MarkUnverified(newRows)

handleRemoveRows(prev, idsToRemove) ==
    SelectSeq(prev, LAMBDA row : row._internal_id \notin idsToRemove)

handleUpdateStatus(prev, ids, st) ==
    [i \in 1..Len(prev) |->
        IF prev[i]._internal_id \in ids
        THEN [prev[i] EXCEPT !.checkStatus = st]
        ELSE prev[i]]

SignificantColumns == {"username", "bio"}

EditRow(row, column, value) ==
    LET updatedRow == [row EXCEPT ![column] = value]
    IN  IF column \in SignificantColumns
        THEN [updatedRow EXCEPT !.checkStatus = "unverified"]
        ELSE updatedRow

handleCellEdit(prev, rowId, column, value) ==
    [i \in 1..Len(prev) |->
        IF prev[i]._internal_id = rowId
        THEN EditRow(prev[i], column, value)
        ELSE prev[i]]

\* The grid's input of row i, column `column`, receives `value`.
CellEditOf(i, column, value) ==
    /\ CleanerMounted
    /\ i \in 1..Len(rows)
    /\ rows' = handleCellEdit(rows, rows[i]._internal_id, column, value)
    /\ UNCHANGED <<grid, panel>>

CellEdit(columns) ==
    \E i \in 1..Len(rows), column \in columns :
      \E value \in EditValues(column) : CellEditOf(i, column, value)

resetDatabase ==
    /\ CleanerMounted
    /\ rows' = <<>>
    /\ grid' = DataEffect(grid, rows')
    /\ UNCHANGED panel

\* ------------------------------------------------ services (part_004)
\* The ParsedProfile records a response may carry, by their douyinId.
Profiles(douyinIds) ==
    [username : {<<"n">>}, douyinId : douyinIds, fans : {EMPTY},
     bio : {<<"p">>}, contact : {EMPTY}]

SeqsUpTo(S, n) == UNION {[1..k -> S] : k \in 0..n}

\* What awaiting extractProfilesFromText yields: the profiles array (empty also
\* for valid JSON without one), or a thrown ApiError with or without the raw
\* response.
ExtractOutcomes(douyinIds) ==
    [kind : {"ok"}, profiles : SeqsUpTo(Profiles(douyinIds), MaxBatch),
     raw : {FALSE}]
      \cup [kind : {"error"}, profiles : {<<>>}, raw : BOOLEAN]

\* Every id a row may carry, hence every id a payload may show the model.
FileCell == <<"v">>

AllIds == {NumId(1)} \cup GenIds \cup {StrId(FileCell)}

\* What awaiting filterIrrelevantProfiles yields: ids_to_remove, [] for valid
\* JSON without that array ("noarray"), or a thrown ApiError.
FilterOutcomes ==
    [kind : {"ok"}, ids : SUBSET AllIds, raw : {FALSE}]
      \cup [kind : {"noarray"}, ids : {{}}, raw : {FALSE}]
      \cup [kind : {"error"}, ids : {{}}, raw : BOOLEAN]

\* No batched extraction is set up.
NoBatch == <<>>

\* ------------------------------------------------------ CleaningPanel.tsx
\* The key test taken never to find the key missing.
MissingKeyIgnored(key) == FALSE

\* !apiKey
MissingKey(key) == key = EMPTY

\* A handler reads apiKey and inputText before its await and never after
\* it, so typing is explored between requests only.
handleSaveKey ==
    /\ CleanerMounted
    /\ pc = "idle"
    /\ \E val \in {EMPTY, <<"k">>} : apiKey' = val
    /\ UNCHANGED <<rows, grid, inputText, isLoading, status, debugLog, pc,
                   existingIds, rowsToCheck>>

setInputText ==
    /\ CleanerMounted
    /\ pc = "idle"
    /\ \E val \in {EMPTY, <<"t">>} : inputText' = val
    /\ UNCHANGED <<rows, grid, apiKey, isLoading, status, debugLog, pc,
                   existingIds, rowsToCheck>>

\* The keys of the table compared as they are stored.
NaturalKeysUntrimmed(table) == {table[i].douyinId : i \in 1..Len(table)}

\* String(r.抖音号 || "").trim() of every row
NaturalKeys(table) == {Trim(table[i].douyinId) : i \in 1..Len(table)}

\* The forEach of the merge from record i on.  acc.rejected records, per
\* record, whether it was counted as a duplicate.
RECURSIVE MergeFrom(_, _, _, _, _)
MergeFrom(parsedData, genIds, i, keys, acc) ==
    IF i > Len(parsedData) THEN acc
    ELSE
      LET p == parsedData[i]
          dId == Trim(p.douyinId)
      IN  IF dId # EMPTY /\ dId \in keys
          THEN MergeFrom(parsedData, genIds, i + 1, keys,
                 [acc EXCEPT !.duplicateCount = @ + 1,
                             !.rejected = Append(@, TRUE)])
          ELSE MergeFrom(parsedData, genIds, i + 1,
                 IF dId # EMPTY THEN keys \cup {dId} ELSE keys,
                 [acc EXCEPT
                    !.newRows = Append(@,
                        [_internal_id |-> genIds[i],
                         checkStatus |-> "unverified",
                         username |-> p.username, douyinId |-> p.douyinId,
                         fans |-> p.fans, bio |-> p.bio,
                         contact |-> p.contact]),
                    !.rejected = Append(@, FALSE)])

MergeExtracted(keys, parsedData, genIds) ==
    MergeFrom(parsedData, genIds, 1, keys,
              [newRows |-> <<>>, duplicateCount |-> 0, rejected |-> <<>>])

\* handleInitialCleaning up to its await: the alerts, or the request.
StartInitialCleaning ==
    /\ CleanerMounted
    /\ pc = "idle"
    /\ IF Trim(inputText) = EMPTY \/ MissingKey(apiKey)
       THEN UNCHANGED <<rows, grid, panel>>
       ELSE /\ isLoading' = TRUE
            /\ status' = <<"processing">>
            /\ debugLog' = "null"
            /\ pc' = "extract"
            /\ existingIds' = NaturalKeys(rows)
            /\ UNCHANGED <<rows, grid, apiKey, inputText, rowsToCheck>>

\* handleInitialCleaning from its await on, the service yielding `out` and
\* the generator genIds[i] for record i.
FinishInitialCleaningOf(out, genIds) ==
    /\ CleanerMounted
    /\ pc = "extract"
    /\ LET m == MergeExtracted(existingIds, out.profiles, genIds)
       IN  /\ Len(rows) + Len(m.newRows) <= MaxRows
           /\ IF out.kind = "error"
              THEN /\ status' = <<"Error">>
                   /\ debugLog' = IF out.raw THEN "extract response"
                                  ELSE debugLog
                   /\ UNCHANGED <<rows, grid, inputText>>
              ELSE IF Len(out.profiles) = 0
              THEN /\ status' = <<"no data">>
                   /\ UNCHANGED <<rows, grid, inputText, debugLog>>
              ELSE /\ rows' = handleAddRows(rows, m.newRows)
                   /\ grid' = DataEffect(grid, rows')
                   /\ status' = <<"added", Len(m.newRows), m.duplicateCount>>
                   /\ inputText' = EMPTY
                   /\ UNCHANGED debugLog
    /\ isLoading' = FALSE
    /\ pc' = "idle"
    /\ existingIds' = {}
    /\ UNCHANGED <<apiKey, rowsToCheck>>

FinishInitialCleaning(douyinIds) ==
    \E out \in ExtractOutcomes(douyinIds), genIds \in [1..MaxBatch -> GenIds] :
        FinishInitialCleaningOf(out, genIds)

\* ------------------------- the batched extraction (DataGrid.tsx 511-)
\* text.split('\n')
RECURSIVE SplitLines(_)
SplitLines(text) ==
    IF \E n \in 1..Len(text) : text[n] = "\n"
    THEN LET n == CHOOSE k \in 1..Len(text) :
                    /\ text[k] = "\n"
                    /\ \A m \in 1..(k - 1) : text[m] # "\n"
         IN  <<SubSeq(text, 1, n - 1)>>
               \o SplitLines(SubSeq(text, n + 1, Len(text)))
    ELSE <<text>>

\* lines.join('\n')
RECURSIVE JoinLines(_)
JoinLines(lines) ==
    IF Len(lines) = 0 THEN <<>>
    ELSE IF Len(lines) = 1 THEN lines[1]
    ELSE lines[1] \o <<"\n">> \o JoinLines(Tail(lines))

\* !str.trim(): nothing but white space
IsBlank(str) == \A n \in 1..Len(str) : str[n] \in {" ", "\n"}

Min(a, b) == IF a < b THEN a ELSE b

\* The loop taken to step by chunkSize, whatever the overlap.
RECURSIVE ChunkRangesStepping(_, _, _, _)
ChunkRangesStepping(n, chunkSize, overlap, start) ==
    LET end == Min(start + chunkSize, n)
    IN  <<[start |-> start, end |-> end]>>
          \o (IF end >= n THEN <<>>
              ELSE ChunkRangesStepping(n, chunkSize, overlap,
                                       start + chunkSize))

\* The loop taken to go on while a chunk starts before the last line.
RECURSIVE ChunkRangesTrailing(_, _, _, _)
ChunkRangesTrailing(n, chunkSize, overlap, start) ==
    LET end == Min(start + chunkSize, n)
        next == start + (chunkSize - overlap)
    IN  <<[start |-> start, end |-> end]>>
          \o (IF next >= n THEN <<>>
              ELSE ChunkRangesTrailing(n, chunkSize, overlap, next))

\* The chunker's loop from the line `start` on: a chunk of chunkSize lines,
\* or fewer at the tail; the loop ends with the chunk whose end reaches the
\* number of lines, else the next chunk starts chunkSize - overlap further.
RECURSIVE ChunkRangesFrom(_, _, _, _)
ChunkRangesFrom(n, chunkSize, overlap, start) ==
    LET end == Min(start + chunkSize, n)
    IN  <<[start |-> start, end |-> end]>>
          \o (IF end >= n THEN <<>>
              ELSE ChunkRangesFrom(n, chunkSize, overlap,
                                   start + (chunkSize - overlap)))

ChunkRanges(n, chunkSize, overlap) == ChunkRangesFrom(n, chunkSize, overlap, 0)

\* The text of the lines [range.start, range.end)
ChunkText(lines, range) == JoinLines(SubSeq(lines, range.start + 1, range.end))

\* The chunks emitted, as line ranges: those of the loop whose text is not
\* blank.
Chunks(text, chunkSize, overlap) ==
    LET lines == SplitLines(text)
    IN  SelectSeq(ChunkRanges(Len(lines), chunkSize, overlap),
                  LAMBDA range : ~IsBlank(ChunkText(lines, range)))

\* What the request of one chunk yields: the profiles array, or a failure
\* (network error, non-success response, unparseable output, schema
\* violation).
ChunkOutcomes(douyinIds) ==
    [kind : {"ok"}, profiles : SeqsUpTo(Profiles(douyinIds), 1)]
      \cup [kind : {"failed"}, profiles : {<<>>}]

\* The failed chunk taken to throw the list away.
AccumulateOrAbort(acc, out) ==
    IF out.kind = "ok" THEN acc \o out.profiles ELSE <<>>

\* The accumulating result list after a chunk: a failure is logged and
\* skipped.
Accumulate(acc, out) == IF out.kind = "ok" THEN acc \o out.profiles ELSE acc

\* A batched extraction set up with its chunk size and overlap, none run.
BatchOf(chunkSize, overlap) ==
    [chunkSize |-> chunkSize, overlap |-> overlap, chunks |-> <<>>,
     log |-> <<>>, parsed |-> <<>>]

\* handleInitialCleaning of the batched panel up to the first request: the
\* alerts, or the text is chunked.
handleBatchedCleaning ==
    /\ BatchMounted
    /\ pc = "idle"
    /\ extraction # NoBatch
    /\ IF IsBlank(inputText) \/ MissingKey(apiKey)
       THEN UNCHANGED <<rows, grid, panel, extraction>>
       ELSE /\ isLoading' = TRUE
            /\ status' = <<"preparing">>
            /\ debugLog' = "null"
            /\ pc' = "chunks"
            /\ existingIds' = NaturalKeys(rows)
            /\ extraction' =
                 [extraction EXCEPT
                    !.chunks = Chunks(inputText, extraction.chunkSize,
                                      extraction.overlap),
                    !.log = <<>>, !.parsed = <<>>]
            /\ UNCHANGED <<rows, grid, apiKey, inputText, rowsToCheck>>

\* The request of the next chunk yields `out`: it is logged, its records join
\* the list and the progress is reported; after the last chunk the service
\* returns the list and handleInitialCleaning merges it, with the generator
\* giving genIds[i] for record i.
ChunkResponseOf(out, genIds) ==
    /\ BatchMounted
    /\ pc = "chunks"
    /\ LET parsed == Accumulate(extraction.parsed, out)
           log == Append(extraction.log, out)
           m == MergeExtracted(existingIds, parsed, genIds)
       IN  /\ extraction' = [extraction EXCEPT !.parsed = parsed, !.log = log]
           /\ IF Len(log) < Len(extraction.chunks)
              THEN /\ status' = <<"progress", Len(log), Len(extraction.chunks)>>
                   /\ UNCHANGED <<rows, grid, isLoading, pc, existingIds>>
              ELSE /\ Len(rows) + Len(m.newRows) <= MaxRows
                   /\ IF Len(parsed) = 0
                      THEN /\ status' = <<"no data">>
                           /\ UNCHANGED <<rows, grid>>
                      ELSE /\ rows' = handleAddRows(rows, m.newRows)
                           /\ grid' = DataEffect(grid, rows')
                           /\ status' = <<"done", Len(parsed), Len(m.newRows),
                                          m.duplicateCount>>
                   /\ isLoading' = FALSE
                   /\ pc' = "idle"
                   /\ existingIds' = {}
    /\ UNCHANGED <<apiKey, inputText, debugLog, rowsToCheck>>

ChunkResponse(douyinIds) ==
    \E out \in ChunkOutcomes(douyinIds), genIds \in [1..MaxLines -> GenIds] :
        ChunkResponseOf(out, genIds)

\* The batch taken to be every row of the table.
RowsToCheckAll(table) == table

\* rowsToCheck of handleRelevanceCleaning
RowsToCheck(table) == SelectSeq(table, LAMBDA r : r.checkStatus # "verified")

IdsOf(table) == {table[i]._internal_id : i \in 1..Len(table)}

\* The two alerts of handleRelevanceCleaning: nothing but the alert.
RelevanceAlert == UNCHANGED <<rows, grid, panel>>

\* handleRelevanceCleaning up to its await, or up to its return.
handleRelevanceCleaning ==
    /\ CleanerMounted
    /\ pc = "idle"
    /\ IF Len(rows) = 0 \/ MissingKey(apiKey)
       THEN RelevanceAlert
       ELSE IF Len(RowsToCheck(rows)) = 0
       THEN /\ status' = <<"all verified">>
            /\ UNCHANGED <<rows, grid, apiKey, inputText, isLoading, debugLog,
                           pc, existingIds, rowsToCheck>>
       ELSE /\ isLoading' = TRUE
            /\ status' = <<"analysing", Len(RowsToCheck(rows))>>
            /\ debugLog' = "null"
            /\ pc' = "filter"
            /\ rowsToCheck' = RowsToCheck(rows)
            /\ UNCHANGED <<rows, grid, apiKey, inputText, existingIds>>

\* A click on the button of the relevance tab, which is disabled while
\* isLoading or when no row is unverified.
StartRelevanceCleaning ==
    /\ Len(RowsToCheck(rows)) > 0
    /\ handleRelevanceCleaning

SurvivorIds(batch, idsToRemove) ==
    IdsOf(SelectSeq(batch, LAMBDA r : r._internal_id \notin idsToRemove))

\* The table after the two updaters queued by a pass that did not throw.
ApplyRelevance(prev, batch, idsToRemove) ==
    LET removed == IF idsToRemove # {}
                   THEN handleRemoveRows(prev, idsToRemove) ELSE prev
        survivorIds == SurvivorIds(batch, idsToRemove)
    IN  IF survivorIds # {}
        THEN handleUpdateStatus(removed, survivorIds, "verified")
        ELSE removed

\* A pass whose failure is taken for an empty removal list.
RelevanceResultNoCatch(prev, batch, out) == ApplyRelevance(prev, batch, out.ids)

\* The table after the pass: a thrown error reaches the catch block before
\* any updater is queued.
RelevanceResult(prev, batch, out) ==
    IF out.kind = "error" THEN prev
    ELSE ApplyRelevance(prev, batch, out.ids)

\* handleRelevanceCleaning from its await on, the service yielding `out`.
FinishRelevanceCleaningOf(out) ==
    /\ CleanerMounted
    /\ pc = "filter"
    /\ rows' = RelevanceResult(rows, rowsToCheck, out)
    /\ grid' = IF out.kind = "error" THEN grid ELSE DataEffect(grid, rows')
    /\ status' = IF out.kind = "error" THEN <<"Error">>
                 ELSE <<"removed", Cardinality(out.ids),
                        Len(SelectSeq(rowsToCheck,
                              LAMBDA r : r._internal_id \notin out.ids))>>
    /\ debugLog' = IF out.kind = "error" /\ out.raw THEN "filter response"
                   ELSE debugLog
    /\ isLoading' = FALSE
    /\ pc' = "idle"
    /\ rowsToCheck' = <<>>
    /\ UNCHANGED <<apiKey, inputText, existingIds>>

FinishRelevanceCleaning ==
    \E out \in FilterOutcomes : FinishRelevanceCleaningOf(out)

\* onRemoveRows and onUpdateStatus are two calls of setProject made after an
\* await.  A root that batches the updates of one task commits both in one
\* render (FinishRelevanceCleaning); a root that does not renders, and runs
\* the persistence effect, after each.  The root is created outside these
\* sources, so both are outcomes of the build.  RemoveListedRows is the
\* commit of the first updater alone, MarkSurvivors the rest of the handler.
RemoveListedRowsOf(out) ==
    /\ BatchMounted
    /\ pc = "filter"
    /\ out.kind # "error"
    /\ out.ids # {}
    /\ rows' = handleRemoveRows(rows, out.ids)
    /\ grid' = DataEffect(grid, rows')
    /\ extraction' = [idsToRemove |-> out.ids]
    /\ pc' = "removed"
    /\ UNCHANGED <<apiKey, inputText, isLoading, status, debugLog,
                   existingIds, rowsToCheck>>

RemoveListedRows ==
    \E out \in FilterOutcomes : RemoveListedRowsOf(out)

MarkSurvivors ==
    /\ BatchMounted
    /\ pc = "removed"
    /\ LET survivorIds == SurvivorIds(rowsToCheck, extraction.idsToRemove)
       IN  /\ rows' = IF survivorIds # {}
                      THEN handleUpdateStatus(rows, survivorIds, "verified")
                      ELSE rows
           /\ status' = <<"removed", Cardinality(extraction.idsToRemove),
                          Cardinality(survivorIds)>>
    /\ grid' = DataEffect(grid, rows')
    /\ isLoading' = FALSE
    /\ pc' = "idle"
    /\ rowsToCheck' = <<>>
    /\ extraction' = NoBatch
    /\ UNCHANGED <<apiKey, inputText, debugLog, existingIds>>

\* ------------------------------------------- DataGrid import (part_001)
\* The header rows of the files imported.  Header cells are given trimmed.
FileHeaderRows ==
    { <<"status", "username", "douyinId", "bio">>,
      <<"_internal_id", "username", "douyinId", "bio">>,
      <<"checkStatus", "username", "douyinId", "bio">> }

\* The body rows of the files imported: a blank row, a row with a natural key
\* and a row without one.
FileBodyRows ==
    { <<EMPTY, EMPTY, EMPTY, EMPTY>>,
      <<FileCell, <<"n">>, <<"a">>, <<"p">>>>,
      <<FileCell, <<"n">>, EMPTY, <<"p">>>> }

\* sheet_to_json(..., {header: 1}): the header row, then the body rows; an
\* empty sheet gives no row at all.
Files(headerRows) ==
    {<<>>} \cup
    {<<h>> \o body : h \in headerRows,
                     body \in SeqsUpTo(FileBodyRows, MaxFileRows)}

\* The checkStatus a cell's text stands for; FileCell abbreviates 'verified'.
CellStatus(cell) == IF cell = FileCell THEN "verified" ELSE "other"

\* rowObj[header] = cell
SetField(rowObj, header, cell) ==
    CASE header = "_internal_id" -> [rowObj EXCEPT !._internal_id = StrId(cell)]
      [] header = "checkStatus"  -> [rowObj EXCEPT !.checkStatus = CellStatus(cell)]
      [] header \in DataColumns  -> [rowObj EXCEPT ![header] = cell]
      [] OTHER                   -> rowObj

\* rawHeaders.forEach from column colIndex on
RECURSIVE FillRow(_, _, _, _)
FillRow(rowObj, rawHeaders, rowArr, colIndex) ==
    IF colIndex > Len(rawHeaders) THEN rowObj
    ELSE FillRow(IF rawHeaders[colIndex] # "status"
                 THEN SetField(rowObj, rawHeaders[colIndex], rowArr[colIndex])
                 ELSE rowObj,
                 rawHeaders, rowArr, colIndex + 1)

BlankRow(rowArr) == \A c \in 1..Len(rowArr) : rowArr[c] = EMPTY

\* The loop over the body rows from row i of the sheet on; genIds[i] is
\* Date.now() + i + Math.random().
RECURSIVE ParseRows(_, _, _)
ParseRows(jsonData, genIds, i) ==
    IF i > Len(jsonData) THEN <<>>
    ELSE IF BlankRow(jsonData[i]) THEN ParseRows(jsonData, genIds, i + 1)
    ELSE << FillRow([_internal_id |-> genIds[i], checkStatus |-> "unverified",
                     username |-> EMPTY, douyinId |-> EMPTY, fans |-> EMPTY,
                     bio |-> EMPTY, contact |-> EMPTY],
                    jsonData[1], jsonData[i], 1) >>
         \o ParseRows(jsonData, genIds, i + 1)

processRawGrid(jsonData, genIds) == ParseRows(jsonData, genIds, 2)

handleImportData(prev, newRows) ==
    IF Len(newRows) > 0 THEN prev \o MarkUnverified(newRows) ELSE prev

\* handleFileChange: the file chosen is read, parsed and appended.
ImportFileOf(jsonData, genIds) ==
    LET parsedRows == IF Len(jsonData) = 0 THEN <<>>
                      ELSE processRawGrid(jsonData, genIds)
    IN  /\ CleanerMounted
        /\ Len(rows) + Len(parsedRows) <= MaxRows
        /\ rows' = handleImportData(rows, parsedRows)
        /\ grid' = IF Len(jsonData) = 0 THEN grid ELSE ResetFilters(grid)
        /\ UNCHANGED panel

ImportFile(headerRows) ==
    \E jsonData \in Files(headerRows), genIds \in [2..MaxFileRows + 1 -> GenIds] :
        ImportFileOf(jsonData, genIds)

\* --------------------------------------- DataGrid filter menu (part_001)
\* The filter button of column `header`.
handleFilterClickOf(header) ==
    /\ CleanerMounted
    /\ grid' =
         IF grid.openFilterHeader # header
         THEN [grid EXCEPT
                 !.tempFilterSelection =
                     IF header \in DOMAIN grid.activeFilters
                     THEN grid.activeFilters[header]
                     ELSE AllValues(rows, header),
                 !.openFilterHeader = header]
         ELSE [grid EXCEPT !.openFilterHeader = NoHeader]
    /\ UNCHANGED <<rows, panel>>

handleFilterClick(columns) == \E header \in columns : handleFilterClickOf(header)

\* A checkbox of the open menu, which lists the values of its column.
toggleFilterValue ==
    /\ CleanerMounted
    /\ grid.openFilterHeader # NoHeader
    /\ \E val \in AllValues(rows, grid.openFilterHeader) :
         grid' = [grid EXCEPT !.tempFilterSelection =
                    IF val \in @ THEN @ \ {val} ELSE @ \cup {val}]
    /\ UNCHANGED <<rows, panel>>

\* The (全选) checkbox of the open menu.
toggleSelectAll ==
    /\ CleanerMounted
    /\ grid.openFilterHeader # NoHeader
    /\ LET allValues == AllValues(rows, grid.openFilterHeader)
       IN  grid' = [grid EXCEPT !.tempFilterSelection =
                      IF Cardinality(@) = Cardinality(allValues)
                      THEN {} ELSE allValues]
    /\ UNCHANGED <<rows, panel>>

\* The table of filters after OK on the menu of column `header`.
AppliedFilters(activeFilters, header, selection, allValues) ==
    IF Cardinality(selection) = Cardinality(allValues)
    THEN DeleteKey(activeFilters, header)
    ELSE SetKey(activeFilters, header, selection)

applyFilter ==
    /\ CleanerMounted
    /\ grid.openFilterHeader # NoHeader
    /\ grid' = [grid EXCEPT
                  !.activeFilters =
                      AppliedFilters(@, grid.openFilterHeader,
                                     grid.tempFilterSelection,
                                     AllValues(rows, grid.openFilterHeader)),
                  !.openFilterHeader = NoHeader]
    /\ UNCHANGED <<rows, panel>>

\* The unique-items button of the open menu.
handleToggleUniqueMode ==
    /\ CleanerMounted
    /\ grid.openFilterHeader # NoHeader
    /\ LET header == grid.openFilterHeader
       IN  grid' =
             IF header \in grid.uniqueColumns
             THEN [grid EXCEPT !.uniqueColumns = @ \ {header},
                               !.openFilterHeader = NoHeader]
             ELSE [grid EXCEPT !.uniqueColumns = @ \cup {header},
                               !.activeFilters = DeleteKey(@, header),
                               !.openFilterHeader = NoHeader]
    /\ UNCHANGED <<rows, panel>>

\* Cancel, or a mouse press outside the menu.
closeFilterMenu ==
    /\ CleanerMounted
    /\ grid.openFilterHeader # NoHeader
    /\ grid' = [grid EXCEPT !.openFilterHeader = NoHeader]
    /\ UNCHANGED <<rows, panel>>

NextFilterMenu(columns) ==
    \/ handleFilterClick(columns)
    \/ toggleFilterValue
    \/ toggleSelectAll
    \/ applyFilter
    \/ handleToggleUniqueMode
    \/ closeFilterMenu

\* --------------------------------------- DataGrid export (part_001)
\* The labels '已验证' and '待检查' of the 状态 column.
LabelVerified == <<"[", "v", "]">>
LabelPending == <<"[", "o", "]">>

\* The cell written as the row holds it, the 状态 cell as its checkStatus.
ExportCellRaw(row, h) ==
    IF h = "status" THEN <<row.checkStatus>> ELSE CellOf(row, h)

\* rowData[h] of handleExport
ExportCell(row, h) ==
    IF h = "status"
    THEN IF row.checkStatus = "verified" THEN LabelVerified ELSE LabelPending
    ELSE CellOf(row, h)

\* json_to_sheet(exportData, {header: headers}): the header row, then one
\* row of cells per object, the cells in the order of headers.
ExportSheet(view, headers) ==
    <<headers>> \o
    [i \in 1..Len(view) |->
        [k \in 1..Len(headers) |-> ExportCell(view[i], headers[k])]]

\* Export as XLSX or CSV; an empty view is an alert and no file.
handleExport ==
    /\ app = "cleaner"
    /\ LET view == filteredData(rows, grid.activeFilters, grid.uniqueColumns)
       IN  exportFile' = IF Len(view) = 0 THEN exportFile
                         ELSE ExportSheet(view, HEADERS)
    /\ UNCHANGED <<app, project, updater, rows, grid, panel, extraction>>

\* ------------------------------------------------ price App (part_007)
INITIAL_HEADERS == <<"Port", "Dest Code", "P45", "P100", "P300", "P500", "P1000">>

\* A cell holding a JavaScript number.
Num(n) == <<"number", n>>

IsNum(v) == Len(v) = 2 /\ v[1] = "number"

SheetRowOf(id, port, code, p45, p100, p300, p500, p1000) ==
    ("_internal_id" :> NumId(id)) @@ ("Port" :> port) @@ ("Dest Code" :> code)
      @@ ("P45" :> Num(p45)) @@ ("P100" :> Num(p100)) @@ ("P300" :> Num(p300))
      @@ ("P500" :> Num(p500)) @@ ("P1000" :> Num(p1000))

\* INITIAL_ROWS of the price App
INITIAL_SHEET_ROWS ==
    << SheetRowOf(1, <<"M","o","s","c","o","w">>, <<"S","V","O">>,
                  65, 44, 42, 40, 38),
       SheetRowOf(2, <<"S","o","c","h","i">>, <<"A","E","R">>,
                  95, 80, 75, 70, 65),
       SheetRowOf(3, <<"A","s","t","r","a","k","h","a","n">>, <<"A","S","F">>,
                  90, 82, 78, 75, 70) >>

ProjectInit == [headers |-> INITIAL_HEADERS, rows |-> INITIAL_SHEET_ROWS]

\* row._highlights || {}, as the set of the keys set to true
HighlightsOf(row) ==
    IF "_highlights" \in DOMAIN row THEN row["_highlights"] ELSE {}

\* { ...row, ...updates, _highlights: newHighlights }
MergeUpdate(row, updates, newHighlights) ==
    [k \in DOMAIN row \cup DOMAIN updates \cup {"_highlights"} |->
        IF k = "_highlights" THEN newHighlights
        ELSE IF k \in DOMAIN updates THEN updates[k] ELSE row[k]]

\* newRows.findIndex(row => row._internal_id === rowId), 0 for -1
FindIndex(table, rowId) ==
    LET hits == {i \in 1..Len(table) : CellOf(table[i], "_internal_id") = rowId}
    IN  IF hits = {} THEN 0 ELSE CHOOSE i \in hits : \A j \in hits : i <= j

\* updates.forEach from update k on
RECURSIVE ApplyFrom(_, _, _)
ApplyFrom(newRows, updates, k) ==
    IF k > Len(updates) THEN newRows
    ELSE
      LET update == updates[k]
          index == FindIndex(newRows, update.rowId)
      IN  ApplyFrom(
            IF index # 0
            THEN [newRows EXCEPT ![index] =
                    MergeUpdate(@, update.updates,
                                HighlightsOf(@) \cup DOMAIN update.updates)]
            ELSE newRows,
            updates, k + 1)

handleApplyUpdates(prev, updates) ==
    [prev EXCEPT !.rows = ApplyFrom(prev.rows, updates, 1)]

\* handleCellEdit of the price App
handleSheetCellEdit(prev, rowId, column, value) ==
    [prev EXCEPT !.rows =
        [i \in 1..Len(prev.rows) |->
            IF CellOf(prev.rows[i], "_internal_id") = rowId
            THEN SetKey(prev.rows[i], column, value)
            ELSE prev.rows[i]]]

\* ---------------------------------------------- PriceUpdater (part_003)
LowerCase == <<"a","b","c","d","e","f","g","h","i","j","k","l","m",
               "n","o","p","q","r","s","t","u","v","w","x","y","z">>

UpperCase == <<"A","B","C","D","E","F","G","H","I","J","K","L","M",
               "N","O","P","Q","R","S","T","U","V","W","X","Y","Z">>

\* String.prototype.toUpperCase
ToUpperCase(str) ==
    [n \in 1..Len(str) |->
        IF \E l \in 1..Len(LowerCase) : LowerCase[l] = str[n]
        THEN UpperCase[CHOOSE l \in 1..Len(LowerCase) : LowerCase[l] = str[n]]
        ELSE str[n]]

Digits == <<"0", "1", "2", "3", "4", "5", "6", "7", "8", "9">>

\* String(n) of an integer
RECURSIVE NumberToString(_)
NumberToString(n) ==
    IF n < 0 THEN <<"-">> \o NumberToString(0 - n)
    ELSE IF n < 10 THEN <<Digits[n + 1]>>
    ELSE NumberToString(n \div 10) \o <<Digits[(n % 10) + 1]>>

\* String(val) of a cell
StringOf(val) == IF IsNum(val) THEN NumberToString(val[2]) ELSE val

NaN == <<"NaN">>

DigitValue(c) == (CHOOSE d \in 1..Len(Digits) : Digits[d] = c) - 1

RECURSIVE DigitsValue(_)
DigitsValue(str) ==
    IF str = <<>> THEN 0
    ELSE 10 * DigitsValue(SubSeq(str, 1, Len(str) - 1)) + DigitValue(str[Len(str)])

\* Number(val) of a number, or of a string of spaces, digits and letters
ToNumber(val) ==
    IF IsNum(val) THEN val
    ELSE LET t == Trim(val)
         IN  IF t = EMPTY THEN Num(0)
             ELSE IF \A n \in 1..Len(t) : \E d \in 1..Len(Digits) : Digits[d] = t[n]
             THEN Num(DigitsValue(t))
             ELSE NaN

TIERS == <<"P45", "P100", "P300", "P500", "P1000">>

\* The keys of ColumnMapping and AdjustmentRules, tier by tier
TierKeys == <<"p45", "p100", "p300", "p500", "p1000">>

\* The mapping guessed from INITIAL_HEADERS when the component mounts.
GuessedMapping ==
    ("port" :> "Port") @@ ("p45" :> "P45") @@ ("p100" :> "P100")
      @@ ("p300" :> "P300") @@ ("p500" :> "P500") @@ ("p1000" :> "P1000")

InitialAdjustments == [k \in {TierKeys[t] : t \in 1..Len(TierKeys)} |->
                          [mode |-> "add", value |-> 0]]

calculatePrice(rawPrices, key, rule) ==
    LET val == CellOf(rawPrices, key)
    IN  IF val # UNDEFINED /\ val # NULL /\ val # EMPTY
        THEN LET num == ToNumber(val)
             IN  IF num = NaN THEN EMPTY
                 ELSE IF rule.mode = "default" THEN num
                 ELSE IF rule.mode = "add" THEN Num(num[2] + rule.value)
                 ELSE IF rule.mode = "subtract" THEN Num(num[2] - rule.value)
                 ELSE num
        ELSE EMPTY

\* The <<cleanPort, prices>> assignments to priceMap, in order.
RECURSIVE PortEntries(_, _)
PortEntries(apiData, i) ==
    IF i > Len(apiData) THEN <<>>
    ELSE [j \in 1..Len(apiData[i].ports) |->
             <<ToUpperCase(Trim(apiData[i].ports[j])), apiData[i].prices>>]
         \o PortEntries(apiData, i + 1)

\* priceMap: of the assignments to one key the last stays.
PriceMap(entries) ==
    [key \in {entries[n][1] : n \in 1..Len(entries)} |->
        LET hits == {n \in 1..Len(entries) : entries[n][1] = key}
        IN  entries[CHOOSE n \in hits : \A m \in hits : m <= n][2]]

\* The `updates` object of one row from tier t on: a later assignment to
\* the same column replaces an earlier one.
RECURSIVE UpdatesFrom(_, _, _, _)
UpdatesFrom(acc, calculatedPrices, mapping, t) ==
    IF t > Len(TIERS) THEN acc
    ELSE UpdatesFrom(
           IF mapping[TierKeys[t]] # "" /\ calculatedPrices[TIERS[t]] # EMPTY
           THEN SetKey(acc, mapping[TierKeys[t]], calculatedPrices[TIERS[t]])
           ELSE acc,
           calculatedPrices, mapping, t + 1)

\* The key under which a row is looked up, or UNDEFINED for a row skipped.
PortKey(row, mapping) ==
    LET rawPort == CellOf(row, mapping["port"])
    IN  IF rawPort = UNDEFINED \/ rawPort = NULL \/ rawPort = EMPTY
        THEN UNDEFINED
        ELSE ToUpperCase(Trim(StringOf(rawPort)))

\* The preview pushed for the row at position index, or <<>> for none.
RowPreviews(row, index, priceMap, mapping, adjustments) ==
    LET portKey == PortKey(row, mapping)
    IN  IF portKey = UNDEFINED \/ portKey \notin DOMAIN priceMap THEN <<>>
        ELSE
          LET rawPrices == priceMap[portKey]
              calculatedPrices ==
                  [tier \in {TIERS[t] : t \in 1..Len(TIERS)} |->
                      calculatePrice(rawPrices, tier,
                          adjustments[TierKeys[CHOOSE t \in 1..Len(TIERS) :
                                                  TIERS[t] = tier]])]
              updates == UpdatesFrom(EmptyMap, calculatedPrices, mapping, 1)
          IN  IF DOMAIN updates # {}
              THEN << [rowId |-> IF CellOf(row, "_internal_id") # UNDEFINED
                                 THEN row["_internal_id"]
                                 ELSE NumId(index - 1),
                       rowIndex |-> index,
                       port |-> portKey,
                       updates |-> updates,
                       isMatch |-> TRUE,
                       oldP45 |-> IF mapping["p45"] # ""
                                  THEN CellOf(row, mapping["p45"]) ELSE <<"-">>,
                       newP45 |-> calculatedPrices["P45"]] >>
              ELSE <<>>

RECURSIVE PreviewsFrom(_, _, _, _, _)
PreviewsFrom(currentData, index, priceMap, mapping, adjustments) ==
    IF index > Len(currentData) THEN <<>>
    ELSE RowPreviews(currentData[index], index, priceMap, mapping, adjustments)
         \o PreviewsFrom(currentData, index + 1, priceMap, mapping, adjustments)

\* What generatePreviews sets: previews and stats.
generatePreviews(apiData, currentData, mapping, adjustments) ==
    LET entries == PortEntries(apiData, 1)
        priceMap == PriceMap(entries)
    IN  [previews |-> PreviewsFrom(currentData, 1, priceMap, mapping, adjustments),
         stats |-> [foundInImage |-> Len(entries),
                    matchesInSheet |->
                        Cardinality({i \in 1..Len(currentData) :
                            /\ PortKey(currentData[i], mapping) # UNDEFINED
                            /\ PortKey(currentData[i], mapping)
                                 \in DOMAIN priceMap})]]

NoClosure == <<>>

\* The state of PriceUpdater; statusMsg is the message without its
\* parameters, rawResponse and debugInfo tell whether they are set,
\* showConfig whether the mapping panel is open.
UpdaterInit ==
    [step |-> 1, image |-> FALSE, isLoading |-> FALSE, statusMsg |-> "",
     previews |-> <<>>, apiKey |-> EMPTY,
     stats |-> [foundInImage |-> 0, matchesInSheet |-> 0],
     rawResponse |-> FALSE, debugInfo |-> FALSE, showConfig |-> FALSE,
     mapping |-> GuessedMapping, adjustments |-> InitialAdjustments,
     closure |-> NoClosure, timer |-> FALSE]

handleApiKeyChange ==
    /\ \E val \in {EMPTY, <<"k">>} : updater' = [updater EXCEPT !.apiKey = val]
    /\ UNCHANGED project
    /\ PriceMounted

\* handlePaste and handleFileSelect; the drop zone belongs to step 1.
setImage ==
    /\ updater.step = 1
    /\ updater' = [updater EXCEPT !.image = TRUE, !.statusMsg = "Image loaded"]
    /\ UNCHANGED project
    /\ PriceMounted

\* A column select of the mapping panel.
setMapping(choices) ==
    /\ \E colKey \in DOMAIN choices :
         \E header \in choices[colKey] :
            updater' = [updater EXCEPT !.mapping[colKey] = header]
    /\ UNCHANGED project
    /\ PriceMounted

\* The mode select and the value input of one tier.
setAdjustments(tierKeys, modes, values) ==
    /\ \E ruleKey \in tierKeys :
         \/ \E newMode \in modes :
              updater' = [updater EXCEPT !.adjustments[ruleKey].mode = newMode]
         \/ /\ updater.adjustments[ruleKey].mode # "default"
            /\ \E val \in values :
                 updater' = [updater EXCEPT !.adjustments[ruleKey].value = val]
    /\ UNCHANGED project
    /\ PriceMounted

\* What awaiting parseRateSheetImage yields: the parsed array, or a throw.
ParseOutcomes(apiPorts, apiPrices) ==
    [kind : {"ok"},
     parsed : SeqsUpTo([ports : SeqsUpTo(apiPorts, 1), prices : apiPrices], 1)]
      \cup [kind : {"error"}, parsed : {<<>>}]

\* handleParse up to its await, or up to its return: nothing without an
\* image, an alert without a key, an alert and the mapping panel opened
\* without a port column, else the request.  One request is in flight at a
\* time.
handleParse ==
    /\ updater.step = 1
    /\ ~updater.isLoading
    /\ updater' =
         IF ~updater.image THEN updater
         ELSE IF MissingKey(updater.apiKey) THEN updater
         ELSE IF updater.mapping["port"] = ""
         THEN [updater EXCEPT !.showConfig = TRUE]
         ELSE [updater EXCEPT
                 !.isLoading = TRUE, !.statusMsg = "Sending",
                 !.rawResponse = FALSE, !.debugInfo = FALSE,
                 !.closure = [currentData |-> project.rows,
                              mapping |-> updater.mapping,
                              adjustments |-> updater.adjustments]]
    /\ UNCHANGED project
    /\ PriceMounted

\* A click on the button of step 1, which is disabled without an image, a
\* key or a mapped port column, and while isLoading.
StartParse ==
    /\ updater.image /\ ~updater.isLoading
    /\ updater.apiKey # EMPTY /\ updater.mapping["port"] # ""
    /\ handleParse

\* The PriceUpdater state after the await of handleParse yielded `out`.
ParseResult(u, out) ==
    IF out.kind = "error"
    THEN [u EXCEPT !.statusMsg = "Error", !.isLoading = FALSE,
                   !.closure = NoClosure]
    ELSE LET g == generatePreviews(out.parsed, u.closure.currentData,
                                   u.closure.mapping, u.closure.adjustments)
         IN  [u EXCEPT !.rawResponse = TRUE, !.previews = g.previews,
                       !.stats = g.stats, !.debugInfo = TRUE, !.step = 2,
                       !.statusMsg = "Analysis complete", !.isLoading = FALSE,
                       !.closure = NoClosure]

FinishParseOf(out) ==
    /\ updater.closure # NoClosure
    /\ updater' = ParseResult(updater, out)
    /\ UNCHANGED project
    /\ PriceMounted

FinishParse(apiPorts, apiPrices) ==
    \E out \in ParseOutcomes(apiPorts, apiPrices) : FinishParseOf(out)

handleReset(u) ==
    [u EXCEPT !.image = FALSE, !.previews = <<>>, !.step = 1,
              !.statusMsg = "", !.rawResponse = FALSE, !.debugInfo = FALSE]

\* The Cancel button of step 2.
Cancel ==
    /\ updater.step = 2
    /\ updater' = handleReset(updater)
    /\ UNCHANGED project
    /\ PriceMounted

\* The Confirm button of step 2, disabled without previews.
handleSubmit ==
    /\ updater.step = 2
    /\ Len(updater.previews) # 0
    /\ project' = handleApplyUpdates(project, updater.previews)
    /\ updater' = [handleReset(updater) EXCEPT !.statusMsg = "Success",
                                               !.timer = TRUE]
    /\ PriceMounted

\* The timeout set by handleSubmit fires; timer tells that one is pending.
clearStatusMsg ==
    /\ updater.timer
    /\ updater' = [updater EXCEPT !.statusMsg = "", !.timer = FALSE]
    /\ UNCHANGED project
    /\ PriceMounted

\* The grid's input of row i, column `column`, of the price sheet.
SheetCellEditOf(i, column, value) ==
    /\ i \in 1..Len(project.rows)
    /\ \E k \in 1..Len(project.headers) : project.headers[k] = column
    /\ project' = handleSheetCellEdit(project,
                      CellOf(project.rows[i], "_internal_id"), column, value)
    /\ UNCHANGED updater
    /\ PriceMounted

SheetCellEdit(indices, values) ==
    \E i \in indices, column \in DOMAIN values :
      \E value \in values[column] : SheetCellEditOf(i, column, value)

\* ------------------------- price DataGrid import (components/DataGrid.tsx)
\* Header names are keys of the rows and so strings; Chars gives the
\* characters of the names that occur, for the code that works on them.
Chars(name) ==
    CASE name = ""          -> <<>>
      [] name = "A"         -> <<"A">>
      [] name = " A"        -> <<" ", "A">>
      [] name = "B"         -> <<"B">>
      [] name = "C"         -> <<"C">>
      [] name = "A_2"       -> <<"A", "_", "2">>
      [] name = "A_3"       -> <<"A", "_", "3">>
      [] name = "A_2_2"     -> <<"A", "_", "2", "_", "2">>
      [] name = "A_2_3"     -> <<"A", "_", "2", "_", "3">>
      [] name = "A_2_4"     -> <<"A", "_", "2", "_", "4">>
      [] name = "A_4"       -> <<"A", "_", "4">>
      [] name = "D"         -> <<"D">>
      [] name = "Port_2"    -> <<"P", "o", "r", "t", "_", "2">>
      [] name = "Port_3"    -> <<"P", "o", "r", "t", "_", "3">>
      [] name = "Port_4"    -> <<"P", "o", "r", "t", "_", "4">>
      [] name = "P45_2"     -> <<"P", "4", "5", "_", "2">>
      [] name = "P45_3"     -> <<"P", "4", "5", "_", "3">>
      [] name = "P45_4"     -> <<"P", "4", "5", "_", "4">>
      [] name = "Port"      -> <<"P", "o", "r", "t">>
      [] name = "Dest Code" -> <<"D", "e", "s", "t", " ", "C", "o", "d", "e">>
      [] name = "P45"       -> <<"P", "4", "5">>
      [] name = "P100"      -> <<"P", "1", "0", "0">>
      [] name = "P300"      -> <<"P", "3", "0", "0">>
      [] name = "P500"      -> <<"P", "5", "0", "0">>
      [] name = "P1000"     -> <<"P", "1", "0", "0", "0">>

HeaderNames ==
    {"", "A", " A", "B", "C", "D", "A_2", "A_3", "A_4", "A_2_2", "A_2_3",
     "A_2_4", "Port", "Dest Code", "P45", "P100", "P300", "P500", "P1000",
     "Port_2", "Port_3", "Port_4", "P45_2", "P45_3", "P45_4"}

\* The name with the given characters.
NameOf(chars) == CHOOSE name \in HeaderNames : Chars(name) = chars

\* getExcelColumnName: colIndex counts from 0.  The quotient the loop goes
\* on with is a fraction below the next integer, so its % 26 and its sign
\* are those of the integer quotient less one.
RECURSIVE getExcelColumnName(_)
getExcelColumnName(colIndex) ==
    IF colIndex < 0 THEN <<>>
    ELSE LET temp == colIndex % 26
         IN  getExcelColumnName(((colIndex - temp) \div 26) - 1)
               \o <<UpperCase[temp + 1]>>

\* rows[0].map(h => String(h || "").trim())
RawHeaders(headerRow) == [i \in 1..Len(headerRow) |-> Trim(Chars(headerRow[i]))]

\* finalHeaders: a blank header takes the name of its column.
FinalHeaders(rawHeaders) ==
    [i \in 1..Len(rawHeaders) |->
        IF rawHeaders[i] = EMPTY THEN getExcelColumnName(i - 1)
        ELSE rawHeaders[i]]

\* uniqueHeaders: counts[h] after header i is the number of headers up to
\* i that equal h.
UniqueHeaders(finalHeaders) ==
    [i \in 1..Len(finalHeaders) |->
        LET h == finalHeaders[i]
            count == Cardinality({j \in 1..i : finalHeaders[j] = h})
        IN  IF count > 1 THEN h \o <<"_">> \o NumberToString(count) ELSE h]

\* The header names of an imported sheet, as names.
ImportedHeaders(headerRow) ==
    LET uniqueHeaders == UniqueHeaders(FinalHeaders(RawHeaders(headerRow)))
    IN  [i \in 1..Len(uniqueHeaders) |-> NameOf(uniqueHeaders[i])]

\* uniqueHeaders.forEach from column colIndex on
RECURSIVE FillSheetRow(_, _, _, _)
FillSheetRow(rowObj, uniqueHeaders, rowArr, colIndex) ==
    IF colIndex > Len(uniqueHeaders) THEN rowObj
    ELSE FillSheetRow(SetKey(rowObj, uniqueHeaders[colIndex], rowArr[colIndex]),
                      uniqueHeaders, rowArr, colIndex + 1)

\* The loop over the body rows from row i of the sheet on; the id of the
\* row is Date.now() + its index.
RECURSIVE ParseSheetRows(_, _, _, _)
ParseSheetRows(jsonData, uniqueHeaders, now, i) ==
    IF i > Len(jsonData) THEN <<>>
    ELSE IF BlankRow(jsonData[i])
    THEN ParseSheetRows(jsonData, uniqueHeaders, now, i + 1)
    ELSE << FillSheetRow(("_internal_id" :> NumId(now + i - 1))
                           @@ ("_highlights" :> {}),
                         uniqueHeaders, jsonData[i], 1) >>
         \o ParseSheetRows(jsonData, uniqueHeaders, now, i + 1)

\* h.includes(sub)
Includes(str, sub) ==
    \E n \in 0..(Len(str) - Len(sub)) : SubSeq(str, n + 1, n + Len(sub)) = sub

\* String.prototype.toLowerCase
ToLowerCase(str) ==
    [n \in 1..Len(str) |->
        IF \E l \in 1..Len(UpperCase) : UpperCase[l] = str[n]
        THEN LowerCase[CHOOSE l \in 1..Len(UpperCase) : UpperCase[l] = str[n]]
        ELSE str[n]]

\* headers.find(test) || '', of the positions `hits` that pass the test
FindHeader(headers, hits) ==
    IF hits = {} THEN ""
    ELSE headers[CHOOSE i \in hits : \A j \in hits : i <= j]

PortKeywords ==
    { <<"p","o","r","t">>, <<"c","o","d","e">>, <<"d","e","s","t">>,
      <<"p","o","d">>, <<"c","i","t","y">> }

\* The effect of PriceUpdater that guesses the mapping from new headers.
GuessMapping(headers) ==
    LET Has(sub) == {i \in 1..Len(headers) : Includes(Chars(headers[i]), sub)}
        HasKeyword == {i \in 1..Len(headers) :
                         \E k \in PortKeywords :
                            Includes(ToLowerCase(Chars(headers[i])), k)}
    IN  ("port" :> FindHeader(headers, HasKeyword))
          @@ ("p45" :> FindHeader(headers, Has(<<"4","5">>)))
          @@ ("p100" :> FindHeader(headers, Has(<<"1","0","0">>)
                                              \ Has(<<"1","0","0","0">>)))
          @@ ("p300" :> FindHeader(headers, Has(<<"3","0","0">>)))
          @@ ("p500" :> FindHeader(headers, Has(<<"5","0","0">>)))
          @@ ("p1000" :> FindHeader(headers, Has(<<"1","0","0","0">>)))

\* handleFileChange of the price grid: the file chosen is read and parsed
\* and replaces the sheet, unless it is empty or holds no row.
ImportSheetOf(jsonData, now) ==
    LET uniqueHeaders == IF Len(jsonData) = 0 THEN <<>>
                         ELSE ImportedHeaders(jsonData[1])
        parsedRows == ParseSheetRows(jsonData, uniqueHeaders, now, 2)
    IN  /\ IF Len(parsedRows) > 0
           THEN /\ project' = [headers |-> uniqueHeaders, rows |-> parsedRows]
                /\ updater' = [updater EXCEPT
                                 !.mapping = GuessMapping(uniqueHeaders)]
           ELSE UNCHANGED <<project, updater>>
        /\ PriceMounted

\* The sheets of n columns imported: a header row of the given names and
\* body rows, blank or of cells 'c'.
SheetsOfWidth(names, n) ==
    {<<h>> \o body :
       h \in [1..n -> names],
       body \in SeqsUpTo({[k \in 1..n |-> EMPTY], [k \in 1..n |-> <<"c">>]},
                         MaxFileRows)}

\* sheet_to_json(..., {header: 1}) of the files chosen; an empty sheet gives
\* no row at all.
Sheets(names) ==
    {<<>>} \cup UNION {SheetsOfWidth(names, n) : n \in 1..MaxHeaders}

ImportSheet(names, nows) ==
    \E jsonData \in Sheets(names), now \in nows : ImportSheetOf(jsonData, now)

\* resetDatabase of the price App; headers other than INITIAL_HEADERS make
\* the effect of PriceUpdater guess the mapping again.
resetProject ==
    /\ project' = ProjectInit
    /\ updater' = IF project.headers # INITIAL_HEADERS
                  THEN [updater EXCEPT !.mapping = GuessMapping(INITIAL_HEADERS)]
                  ELSE updater
    /\ PriceMounted

NextPrice ==
    \/ handleApiKeyChange
    \/ setImage
    \/ setMapping("port" :> {"", "Port"})
    \/ setAdjustments({"p45"}, {"add"}, {0, 5})
    \/ StartParse
    \/ FinishParse({<<"m","o","s","c","o","w">>, <<"X">>},
                   {"P45" :> Num(70), "P45" :> <<"x">>})
    \/ Cancel
    \/ handleSubmit
    \/ clearStatusMsg
    \/ SheetCellEdit({1}, "Port" :> {<<"X">>})
    \/ resetProject

Init ==
    /\ app \in {"cleaner", "price"}
    /\ rows = INITIAL_ROWS
    /\ grid = GridInit
    /\ apiKey = EMPTY
    /\ inputText = EMPTY
    /\ isLoading = FALSE
    /\ status = <<"">>
    /\ debugLog = "null"
    /\ pc = "idle"
    /\ existingIds = {}
    /\ rowsToCheck = <<>>
    /\ project = ProjectInit
    /\ updater = UpdaterInit
    /\ exportFile = <<>>
    /\ extraction = NoBatch

\* The whole cleaner; its extraction responses carry the keys '' and 'a'.
NextCleaner ==
    \/ CellEdit(EditableColumns)
    \/ resetDatabase
    \/ handleSaveKey
    \/ setInputText
    \/ StartInitialCleaning
    \/ FinishInitialCleaning({EMPTY, <<"a">>})
    \/ StartRelevanceCleaning
    \/ FinishRelevanceCleaning
    \/ ImportFile(FileHeaderRows)

\* Either App is the one mounted.
Next == NextCleaner \/ NextPrice

Spec == Init /\ [][Next]_vars

\* ------------------------------------------- the extraction merge alone
\* The natural keys of the tables and of the responses: none, two that a
\* trim makes equal, and another one.
MergeKeys == {EMPTY, <<"a">>, <<" ", "a">>, <<"b">>}

InitMerge ==
    /\ app = "cleaner"
    /\ rows \in {<<>>} \cup {<<[INITIAL_ROWS[1] EXCEPT !.douyinId = k]>> :
                                k \in MergeKeys}
    /\ grid = GridInit
    /\ apiKey = <<"k">>
    /\ inputText = <<"t">>
    /\ isLoading = FALSE
    /\ status = <<"">>
    /\ debugLog = "null"
    /\ pc = "idle"
    /\ existingIds = {}
    /\ rowsToCheck = <<>>
    /\ project = ProjectInit
    /\ updater = UpdaterInit
    /\ exportFile = <<>>
    /\ extraction = NoBatch

NextMerge ==
    \/ setInputText
    \/ StartInitialCleaning
    \/ FinishInitialCleaning(MergeKeys)

SpecMerge == InitMerge /\ [][NextMerge]_vars

\* --------------------------------------------- the filter engine alone
\* The cells of the tables filtered: null, blank, and a value with and
\* without a space around it.
GridCells ==
    [username : {NULL, <<" ">>, <<"a">>, <<"a", " ">>},
     douyinId : {<<"b">>, <<"c">>}]

GridTables ==
    UNION {[1..n -> GridCells] : n \in 0..MaxGridRows}

GridRows(cells) ==
    [i \in 1..Len(cells) |->
        [_internal_id |-> NumId(i), checkStatus |-> "unverified",
         username |-> cells[i].username, douyinId |-> cells[i].douyinId,
         fans |-> EMPTY, bio |-> <<"p">>, contact |-> EMPTY]]

InitGrid ==
    /\ app = "cleaner"
    /\ rows \in {GridRows(cells) : cells \in GridTables}
    /\ grid = GridInit
    /\ apiKey = EMPTY
    /\ inputText = EMPTY
    /\ isLoading = FALSE
    /\ status = <<"">>
    /\ debugLog = "null"
    /\ pc = "idle"
    /\ existingIds = {}
    /\ rowsToCheck = <<>>
    /\ project = ProjectInit
    /\ updater = UpdaterInit
    /\ exportFile = <<>>
    /\ extraction = NoBatch

NextGrid == NextFilterMenu({"username", "douyinId"})

SpecGrid == InitGrid /\ [][NextGrid]_vars

\* The filter menu of 用户名 in use between edits of the names, so that a
\* restriction can hold values the column no longer has.  A mouse press on
\* a cell closes the menu, so a cell is edited with the menu closed.
EditWithMenuClosed ==
    grid.openFilterHeader = NoHeader /\ CellEdit({"username"})

NextEdited ==
    \/ NextFilterMenu({"username"})
    \/ EditWithMenuClosed

SpecEdited == InitGrid /\ [][NextEdited]_vars

\* ------------------------------- the grid and the events that change data
\* The cleaner with its key and its text entered, the filter menu of 简介
\* in use while rows are edited, imported, extracted, vetted and cleared.
\* The files imported have the header row of an exported file.
SheetHeaderRows == {<<"status", "username", "douyinId", "bio">>}

InitSheet ==
    /\ app = "cleaner"
    /\ rows = INITIAL_ROWS
    /\ grid = GridInit
    /\ apiKey = <<"k">>
    /\ inputText = <<"t">>
    /\ isLoading = FALSE
    /\ status = <<"">>
    /\ debugLog = "null"
    /\ pc = "idle"
    /\ existingIds = {}
    /\ rowsToCheck = <<>>
    /\ project = ProjectInit
    /\ updater = UpdaterInit
    /\ exportFile = <<>>
    /\ extraction = NoBatch

NextSheet ==
    \/ NextFilterMenu({"bio"})
    \/ CellEdit({"username"})
    \/ resetDatabase
    \/ StartInitialCleaning
    \/ FinishInitialCleaning({<<"a">>})
    \/ StartRelevanceCleaning
    \/ FinishRelevanceCleaning
    \/ ImportFile(SheetHeaderRows)

SpecSheet == InitSheet /\ [][NextSheet]_vars

\* ------------------------------------------------ the grid's export alone
\* The cells of the tables exported: names with and without a space, of
\* rows verified and not.
ExportCells ==
    [username : {<<"a">>, <<"a", " ">>, <<"b">>},
     checkStatus : {"verified", "unverified"}]

ExportTables == UNION {[1..n -> ExportCells] : n \in 0..MaxGridRows}

ExportRows(cells) ==
    [i \in 1..Len(cells) |->
        [_internal_id |-> NumId(i), checkStatus |-> cells[i].checkStatus,
         username |-> cells[i].username, douyinId |-> <<"b">>,
         fans |-> EMPTY, bio |-> <<"p">>, contact |-> EMPTY]]

InitExport ==
    /\ app = "cleaner"
    /\ rows \in {ExportRows(cells) : cells \in ExportTables}
    /\ grid = GridInit
    /\ apiKey = EMPTY
    /\ inputText = EMPTY
    /\ isLoading = FALSE
    /\ status = <<"">>
    /\ debugLog = "null"
    /\ pc = "idle"
    /\ existingIds = {}
    /\ rowsToCheck = <<>>
    /\ project = ProjectInit
    /\ updater = UpdaterInit
    /\ exportFile = <<>>
    /\ extraction = NoBatch

NextExport == NextFilterMenu({"username"}) \/ handleExport

SpecExport == InitExport /\ [][NextExport]_vars

\* ------------------------------------------ the relevance handler alone
\* handleRelevanceCleaning run on every table of rows verified and not, with
\* and without a key, whatever the state of its button.
RelevanceTables ==
    UNION {[1..n -> {"verified", "unverified"}] : n \in 0..MaxRows}

RelevanceRows(marks) ==
    [i \in 1..Len(marks) |->
        [INITIAL_ROWS[1] EXCEPT !._internal_id = NumId(i),
                                !.checkStatus = marks[i]]]

InitRelevance ==
    /\ app = "cleaner"
    /\ rows \in {RelevanceRows(marks) : marks \in RelevanceTables}
    /\ grid = GridInit
    /\ apiKey \in {EMPTY, <<"k">>}
    /\ inputText = EMPTY
    /\ isLoading = FALSE
    /\ status = <<"">>
    /\ debugLog = "null"
    /\ pc = "idle"
    /\ existingIds = {}
    /\ rowsToCheck = <<>>
    /\ project = ProjectInit
    /\ updater = UpdaterInit
    /\ exportFile = <<>>
    /\ extraction = NoBatch

NextRelevance ==
    \/ CellEdit({"username"})
    \/ handleRelevanceCleaning
    \/ FinishRelevanceCleaning
    \/ handleSaveKey

SpecRelevance == InitRelevance /\ [][NextRelevance]_vars

\* The relevance pass under either way of committing its two updaters.  No
\* other handler runs between two commits of one task.
EditBetweenTasks == pc # "removed" /\ CellEdit({"username"})

NextCommit ==
    \/ EditBetweenTasks
    \/ handleRelevanceCleaning
    \/ FinishRelevanceCleaning
    \/ RemoveListedRows
    \/ MarkSurvivors

SpecCommit == InitRelevance /\ [][NextCommit]_vars

\* ------------------------------------------- the price sheet's import
\* The header names of the files imported: blank, one name with and without
\* a space, and that name with the suffix a repeated name is given.
SheetNames == {"", "A", " A", "A_2"}

InitImport ==
    /\ app = "price"
    /\ rows = INITIAL_ROWS
    /\ grid = GridInit
    /\ apiKey = EMPTY
    /\ inputText = EMPTY
    /\ isLoading = FALSE
    /\ status = <<"">>
    /\ debugLog = "null"
    /\ pc = "idle"
    /\ existingIds = {}
    /\ rowsToCheck = <<>>
    /\ project = ProjectInit
    /\ updater = UpdaterInit
    /\ exportFile = <<>>
    /\ extraction = NoBatch

NextImport ==
    \/ ImportSheet(SheetNames, {10, 11})
    \/ SheetCellEdit({1}, "A" :> {<<"X">>})
    \/ handleApiKeyChange
    \/ resetProject

SpecImport == InitImport /\ [][NextImport]_vars

\* --------------------------------------------- generatePreviews alone
\* The key cells of the first row of the sheet: none, blank, a port of the
\* response in another case with a space before it, a port of no response.
PreviewKeys == {EMPTY, <<" ">>, <<" ", "s", "o", "c", "h", "i">>, <<"K">>}

\* The port codes of the responses.
PreviewPorts == {EMPTY, <<"S", "O", "C", "H", "I", " ">>, <<"K">>}

\* The price sets of the responses: a number, a numeral, text, blank, none.
PreviewPrices ==
    { "P45" :> Num(70),
      ("P45" :> <<" ", "7">>) @@ ("P100" :> Num(60)),
      "P45" :> <<"x">>,
      ("P45" :> <<" ">>) @@ ("P100" :> EMPTY),
      "P100" :> NULL }

\* One record, with up to two port codes, or none.
PreviewOutcomes ==
    [kind : {"ok"},
     parsed : SeqsUpTo([ports : SeqsUpTo(PreviewPorts, 2),
                        prices : PreviewPrices], 1)]
      \cup [kind : {"error"}, parsed : {<<>>}]

PreviewMappings ==
    {[GuessedMapping EXCEPT !["p45"] = c45, !["p100"] = c100] :
        c45 \in {"", "P45"}, c100 \in {"", "P100"}}

PreviewAdjustments ==
    {[InitialAdjustments EXCEPT !["p45"] = [mode |-> m, value |-> 5]] :
        m \in {"default", "add", "subtract"}}

InitPreview ==
    /\ app = "price"
    /\ rows = INITIAL_ROWS
    /\ grid = GridInit
    /\ apiKey = EMPTY
    /\ inputText = EMPTY
    /\ isLoading = FALSE
    /\ status = <<"">>
    /\ debugLog = "null"
    /\ pc = "idle"
    /\ existingIds = {}
    /\ rowsToCheck = <<>>
    /\ \E key \in PreviewKeys :
         project = [ProjectInit EXCEPT
                      !.rows = <<SetKey(INITIAL_SHEET_ROWS[1], "Port", key),
                                 INITIAL_SHEET_ROWS[2]>>]
    /\ \E m \in PreviewMappings, a \in PreviewAdjustments :
         updater = [UpdaterInit EXCEPT !.apiKey = <<"k">>, !.image = TRUE,
                                       !.mapping = m, !.adjustments = a]
    /\ exportFile = <<>>
    /\ extraction = NoBatch

FinishPreview == \E out \in PreviewOutcomes : FinishParseOf(out)

NextPreview == setImage \/ StartParse \/ FinishPreview \/ Cancel

SpecPreview == InitPreview /\ [][NextPreview]_vars

\* ------------------------------------- the highlights of the price sheet
\* The price sheet updated from a response for Moscow or for the port 'c' of
\* an imported file, with its P45 cells edited by hand, files of the columns
\* Port and P45 imported and the sheet reset.
HighlightEdits == "P45" :> {Num(1), <<"c">>}

InitHighlight ==
    /\ app = "price"
    /\ rows = INITIAL_ROWS
    /\ grid = GridInit
    /\ apiKey = EMPTY
    /\ inputText = EMPTY
    /\ isLoading = FALSE
    /\ status = <<"">>
    /\ debugLog = "null"
    /\ pc = "idle"
    /\ existingIds = {}
    /\ rowsToCheck = <<>>
    /\ project = ProjectInit
    /\ updater = [UpdaterInit EXCEPT !.apiKey = <<"k">>]
    /\ exportFile = <<>>
    /\ extraction = NoBatch

NextHighlight ==
    \/ setImage
    \/ StartParse
    \/ FinishParse({<<"m", "o", "s", "c", "o", "w">>, <<"c">>},
                   {"P45" :> Num(70)})
    \/ Cancel
    \/ handleSubmit
    \/ clearStatusMsg
    \/ SheetCellEdit({1}, HighlightEdits)
    \/ ImportSheet({"Port", "P45"}, {1})
    \/ resetProject

SpecHighlight == InitHighlight /\ [][NextHighlight]_vars

\* -------------------------------- the handlers that issue a request
\* Either App with its key entered or not; the extraction and the relevance
\* handler, and handleParse with a sheet whose headers give a port column
\* or none, each run whatever the state of its button.
InitConfig ==
    /\ app \in {"cleaner", "price"}
    /\ rows = INITIAL_ROWS
    /\ grid = GridInit
    /\ apiKey = EMPTY
    /\ inputText = EMPTY
    /\ isLoading = FALSE
    /\ status = <<"">>
    /\ debugLog = "null"
    /\ pc = "idle"
    /\ existingIds = {}
    /\ rowsToCheck = <<>>
    /\ project = ProjectInit
    /\ updater = UpdaterInit
    /\ exportFile = <<>>
    /\ extraction = NoBatch

NextConfig ==
    \/ handleSaveKey
    \/ setInputText
    \/ StartInitialCleaning
    \/ FinishInitialCleaning({<<"a">>})
    \/ handleRelevanceCleaning
    \/ FinishRelevanceCleaning
    \/ handleApiKeyChange
    \/ setImage
    \/ ImportSheet({"A", "Port"}, {1})
    \/ handleParse
    \/ FinishParse({<<"m", "o", "s", "c", "o", "w">>}, {"P45" :> Num(70)})
    \/ Cancel

SpecConfig == InitConfig /\ [][NextConfig]_vars

\* ------------------------------- the recovery of a reply (part_004,
\* openRouterService.ts)
\* Text is a sequence of characters.  In the replies recovered here, "m" is
\* a member of an object ("key": value), "x" a letter of prose, "~" the
\* backquote of a fence, and objects are written without white space
\* inside.
IsWhite(c) == c \in {" ", "\n"}

RECURSIVE TrimText(_)
TrimText(text) ==
    IF text # <<>> /\ IsWhite(Head(text)) THEN TrimText(Tail(text))
    ELSE IF text # <<>> /\ IsWhite(text[Len(text)])
    THEN TrimText(SubSeq(text, 1, Len(text) - 1))
    ELSE text

\* The texts JSON.parse takes for an object: {}, {m}, and objects in objects.
RECURSIVE IsObject(_)
IsObject(text) ==
    /\ Len(text) >= 2
    /\ text[1] = "{"
    /\ text[Len(text)] = "}"
    /\ LET inner == SubSeq(text, 2, Len(text) - 1)
       IN  inner = <<>> \/ inner = <<"m">> \/ IsObject(inner)

\* JSON.parse: the object, which is identified with its text, or a
\* SyntaxError.  White space around the value is allowed.
JsonParse(text) ==
    IF IsObject(TrimText(text))
    THEN [kind |-> "ok", value |-> TrimText(text)]
    ELSE [kind |-> "SyntaxError"]

FenceJson == <<"~", "~", "~", "j", "s", "o", "n">>

Fence == <<"~", "~", "~">>

\* text.replace(/pat/g, "")
RECURSIVE RemoveAll(_, _)
RemoveAll(text, pat) ==
    IF text = <<>> THEN <<>>
    ELSE IF Len(text) >= Len(pat) /\ SubSeq(text, 1, Len(pat)) = pat
    THEN RemoveAll(SubSeq(text, Len(pat) + 1, Len(text)), pat)
    ELSE <<Head(text)>> \o RemoveAll(Tail(text), pat)

\* text.replace(/pat/gi, ""), for a pattern in lower case
RECURSIVE RemoveAllIgnoringCase(_, _)
RemoveAllIgnoringCase(text, pat) ==
    IF text = <<>> THEN <<>>
    ELSE IF Len(text) >= Len(pat)
            /\ ToLowerCase(SubSeq(text, 1, Len(pat))) = pat
    THEN RemoveAllIgnoringCase(SubSeq(text, Len(pat) + 1, Len(text)), pat)
    ELSE <<Head(text)>> \o RemoveAllIgnoringCase(Tail(text), pat)

\* text.indexOf(c) and text.lastIndexOf(c), counted from 0; -1 for none.
IndexOf(text, c) ==
    IF \E n \in 1..Len(text) : text[n] = c
    THEN (CHOOSE n \in 1..Len(text) :
             text[n] = c /\ \A k \in 1..(n - 1) : text[k] # c) - 1
    ELSE -1

LastIndexOf(text, c) ==
    IF \E n \in 1..Len(text) : text[n] = c
    THEN (CHOOSE n \in 1..Len(text) :
             text[n] = c /\ \A k \in (n + 1)..Len(text) : text[k] # c) - 1
    ELSE -1

\* text.substring(from, to), which swaps its arguments when from > to
Substring(text, from, to) ==
    IF from <= to THEN SubSeq(text, from + 1, to)
    ELSE SubSeq(text, to + 1, from)

\* safeJsonParse (part_004): what it returns, or the ApiError it throws.
safeJsonParse(rawText) ==
    LET stripped == TrimText(RemoveAll(
                       RemoveAllIgnoringCase(rawText, FenceJson), Fence))
        firstBrace == IndexOf(stripped, "{")
        lastBrace == LastIndexOf(stripped, "}")
        cleanText == IF firstBrace # -1 /\ lastBrace # -1
                     THEN Substring(stripped, firstBrace, lastBrace + 1)
                     ELSE stripped
    IN  IF JsonParse(rawText).kind = "ok" THEN JsonParse(rawText)
        ELSE IF JsonParse(cleanText).kind = "ok" THEN JsonParse(cleanText)
        ELSE [kind |-> "ApiError", rawResponse |-> rawText]

\* parseResponse (openRouterService.ts): what it returns, or the
\* SyntaxError of its second JSON.parse.
parseResponse(content) ==
    IF JsonParse(content).kind = "ok" THEN JsonParse(content)
    ELSE JsonParse(TrimText(RemoveAll(RemoveAll(content, FenceJson), Fence)))

\* The replies recovered: prose or none, an opening fence or none, an
\* object, a closing fence or none, prose or none.
ReplyProse == {EMPTY, <<"x", ":", " ">>, <<"x", "{", "x", "}", ":", " ">>}

ReplyFences ==
    {EMPTY, FenceJson \o <<"\n">>, Fence \o <<"\n">>,
     <<"~", "~", "~", "J", "S", "O", "N", "\n">>}

ReplyObjects == {<<"{", "}">>, <<"{", "m", "}">>, <<"{", "{", "m", "}", "}">>}

ReplyClosings == {EMPTY, <<"\n">> \o Fence}

ReplyTrailers == {EMPTY, <<" ", "x">>}

NoObject == <<"none">>

Pending == [kind |-> "pending"]

ShapedReplies ==
    {[content |-> parts[1] \o parts[2] \o parts[3] \o parts[4] \o parts[5],
      expected |-> parts[3], safe |-> Pending, plain |-> Pending] :
        parts \in ReplyProse \X ReplyFences \X ReplyObjects
                    \X ReplyClosings \X ReplyTrailers}

\* Replies that hold no object: prose, a truncated object, a bare fence.
BrokenReplies ==
    {[content |-> text, expected |-> NoObject,
      safe |-> Pending, plain |-> Pending] :
        text \in {<<"x">>, <<"{", "m">>, Fence, FenceJson \o <<"\n", "{">>}}

InitRecovery ==
    /\ app = "cleaner"
    /\ rows = INITIAL_ROWS
    /\ grid = GridInit
    /\ apiKey = <<"k">>
    /\ inputText = <<"t">>
    /\ isLoading = FALSE
    /\ status = <<"">>
    /\ debugLog = "null"
    /\ pc = "idle"
    /\ existingIds = {}
    /\ rowsToCheck = <<>>
    /\ project = ProjectInit
    /\ updater = UpdaterInit
    /\ exportFile = <<>>
    /\ extraction \in ShapedReplies \cup BrokenReplies

RecoverSafely ==
    /\ BatchMounted
    /\ extraction' = [extraction EXCEPT !.safe = safeJsonParse(extraction.content)]
    /\ UNCHANGED <<rows, grid, panel>>

RecoverPlainly ==
    /\ BatchMounted
    /\ extraction' = [extraction EXCEPT !.plain = parseResponse(extraction.content)]
    /\ UNCHANGED <<rows, grid, panel>>

NextRecovery ==
    \/ RecoverSafely
    \/ RecoverPlainly

SpecRecovery == InitRecovery /\ [][NextRecovery]_vars

\* ------------------------------------------- the batched extraction alone
\* The texts extracted: up to MaxLines lines, each blank or not.
ChunkTexts ==
    {JoinLines(lines) :
        lines \in UNION {[1..n -> {EMPTY, <<"t">>}] : n \in 1..MaxLines}}

\* The chunk sizes and overlaps the chunker is set up with: 0 <= O < C.
ChunkSettings ==
    UNION {{BatchOf(chunkSize, overlap) : overlap \in 0..(chunkSize - 1)} :
              chunkSize \in 1..MaxChunk}

InitChunk ==
    /\ app = "cleaner"
    /\ rows = <<>>
    /\ grid = GridInit
    /\ apiKey = <<"k">>
    /\ inputText \in ChunkTexts
    /\ isLoading = FALSE
    /\ status = <<"">>
    /\ debugLog = "null"
    /\ pc = "idle"
    /\ existingIds = {}
    /\ rowsToCheck = <<>>
    /\ project = ProjectInit
    /\ updater = UpdaterInit
    /\ exportFile = <<>>
    /\ extraction \in ChunkSettings

NextChunk ==
    \/ handleBatchedCleaning
    \/ ChunkResponse({<<"a">>, <<"b">>})
    \/ resetDatabase

SpecChunk == InitChunk /\ [][NextChunk]_vars

\* ============================================================ properties
\* The row without its checkStatus.
Unmarked(row) == [row EXCEPT !.checkStatus = "unverified"]

UnmarkedRows(table) == [i \in 1..Len(table) |-> Unmarked(table[i])]

AllEditValues == UNION {EditValues(column) : column \in EditableColumns}

\* C1: a relevance pass that succeeds on its batch B, still the unverified
\* rows of the table, with a removal list R of ids of B leaves the previous
\* table minus exactly the rows whose id is in R, so a table shorter by |R|,
\* and every row of B not in R verified.
C1_PassRemovesExactlyR ==
    [][\A out \in FilterOutcomes :
         ( /\ FinishRelevanceCleaningOf(out)
           /\ out.kind = "ok"
           /\ rowsToCheck = RowsToCheck(rows)
           /\ out.ids \subseteq IdsOf(rowsToCheck) )
         => /\ UnmarkedRows(rows') =
                 UnmarkedRows(SelectSeq(rows,
                     LAMBDA r : r._internal_id \notin out.ids))
            /\ Len(rows') = Len(rows) - Cardinality(out.ids)
            /\ \A j \in 1..Len(rows') :
                 rows'[j]._internal_id \in IdsOf(rowsToCheck) \ out.ids
                   => rows'[j].checkStatus = "verified"]_vars

\* C2: a relevance-filter request or a price-OCR request that fails makes no
\* transition: neither issuing it nor its failure changes the row table, a
\* row's checkStatus, the price sheet or the previews.
C2_FailureChangesNothing ==
    [][ /\ StartRelevanceCleaning => rows' = rows
        /\ \A raw \in BOOLEAN :
             FinishRelevanceCleaningOf([kind |-> "error", ids |-> {}, raw |-> raw])
               => rows' = rows
        /\ StartParse =>
             project' = project /\ updater'.previews = updater.previews
        /\ FinishParseOf([kind |-> "error", parsed |-> <<>>])
             => project' = project /\ updater'.previews = updater.previews
      ]_vars

\* A relevance request has failed with a raw response to show, and the table
\* still holds a verified and an unverified row.
C2_Witness ==
    /\ pc = "idle" /\ status = <<"Error">> /\ debugLog = "filter response"
    /\ \E i, j \in 1..Len(rows) :
         rows[i].checkStatus = "verified" /\ rows[j].checkStatus = "unverified"

\* C3: a relevance pass neither deletes nor modifies a row that was not in
\* the batch it sent, a row already verified, whatever ids the response
\* lists.
C3_PassLeavesOtherRows ==
    [][\A out \in FilterOutcomes :
         FinishRelevanceCleaningOf(out)
           => \A i \in 1..Len(rows) :
                ( /\ rows[i].checkStatus = "verified"
                  /\ rows[i]._internal_id \notin IdsOf(rowsToCheck) )
                  => \E j \in 1..Len(rows') : rows'[j] = rows[i]]_vars

\* C4: a cell edit on a verified row makes it unverified if and only if the
\* column is 用户名 or 简介, an edit of another column leaves its checkStatus,
\* and no edit changes the checkStatus of another row.
C4_EditResetsOnlyItsRow ==
    [][\A i \in 1..MaxRows, column \in EditableColumns, value \in AllEditValues :
         ( /\ CellEditOf(i, column, value)
           /\ rows[i].checkStatus = "verified" )
         => /\ rows'[i].checkStatus = "unverified"
                 <=> column \in {"username", "bio"}
            /\ column \notin {"username", "bio"}
                 => rows'[i].checkStatus = rows[i].checkStatus
            /\ \A j \in 1..Len(rows) :
                 j # i => rows'[j].checkStatus = rows[j].checkStatus]_vars

\* C5: a row is verified only if a completed pass vetted the 用户名 and 简介
\* it holds: whenever a step leaves a row verified, either the row was
\* verified with these values before the step, or the step completes a pass
\* whose payload showed the row with these values and did not list it.
C5_VerifiedMeansVetted ==
    [][\A j \in 1..Len(rows') :
         rows'[j].checkStatus = "verified"
           => \/ \E i \in 1..Len(rows) :
                   /\ rows[i].checkStatus = "verified"
                   /\ rows[i]._internal_id = rows'[j]._internal_id
                   /\ rows[i].username = rows'[j].username
                   /\ rows[i].bio = rows'[j].bio
              \/ /\ pc = "filter" /\ pc' = "idle"
                 /\ \E k \in 1..Len(rowsToCheck) :
                      /\ rowsToCheck[k]._internal_id = rows'[j]._internal_id
                      /\ rowsToCheck[k].username = rows'[j].username
                      /\ rowsToCheck[k].bio = rows'[j].bio]_vars

\* Whether record i of the batch is a duplicate: its trimmed key is not
\* empty and is the trimmed key of a row of the table or of an earlier record
\* that is no duplicate.
RECURSIVE IsDuplicate(_, _, _)
IsDuplicate(table, parsedData, i) ==
    LET key == Trim(parsedData[i].douyinId)
    IN  /\ key # EMPTY
        /\ \/ \E r \in 1..Len(table) : Trim(table[r].douyinId) = key
           \/ \E e \in 1..(i - 1) :
                /\ ~IsDuplicate(table, parsedData, e)
                /\ Trim(parsedData[e].douyinId) = key

\* The records of the batch that are no duplicates, in order.
Admitted(table, parsedData) ==
    LET idx == SelectSeq([i \in 1..Len(parsedData) |-> i],
                         LAMBDA i : ~IsDuplicate(table, parsedData, i))
    IN  [n \in 1..Len(idx) |-> parsedData[idx[n]]]

\* C6: an extraction merge rejects a record if and only if its trimmed key
\* is not empty and is the trimmed key of a row of the table or of a record
\* admitted earlier in the batch: the rows appended are the other records,
\* in order, and the count of duplicates is the number of the rejected.
C6_MergeRejectsDuplicates ==
    [][\A out \in ExtractOutcomes(MergeKeys), genIds \in [1..MaxBatch -> GenIds] :
         ( /\ FinishInitialCleaningOf(out, genIds)
           /\ out.kind = "ok" /\ Len(out.profiles) > 0
           /\ existingIds = NaturalKeys(rows) )
         => LET admitted == Admitted(rows, out.profiles)
            IN  /\ Len(rows') = Len(rows) + Len(admitted)
                /\ SubSeq(rows', 1, Len(rows)) = rows
                /\ \A n \in 1..Len(admitted) :
                     /\ rows'[Len(rows) + n].douyinId = admitted[n].douyinId
                     /\ rows'[Len(rows) + n].username = admitted[n].username
                /\ status' = <<"added", Len(admitted),
                               Len(out.profiles) - Len(admitted)>>]_vars

\* A merge into the empty table has admitted the record whose key has a
\* space before it and rejected the later record with the same key.
C6_Witness ==
    /\ status = <<"added", 1, 1>>
    /\ Len(rows) = 1
    /\ rows[1].douyinId = <<" ", "a">>
    /\ pc = "idle"

\* No two rows of the table hold the same non-empty trimmed key.
KeysUnique(table) ==
    \A i, j \in 1..Len(table) :
        (i # j /\ Trim(table[i].douyinId) # EMPTY)
          => Trim(table[i].douyinId) # Trim(table[j].douyinId)

\* C7: a record arriving by extraction or by file import whose key a
\* resident row holds leaves exactly one resident row with that key, and
\* the records admitted and rejected add up to the records received.
C7_OneRowPerKey ==
    [][ /\ (ImportFile(FileHeaderRows) /\ KeysUnique(rows)) => KeysUnique(rows')
        /\ \A out \in ExtractOutcomes({EMPTY, <<"a">>}),
              genIds \in [1..MaxBatch -> GenIds] :
             ( /\ FinishInitialCleaningOf(out, genIds)
               /\ out.kind = "ok" /\ Len(out.profiles) > 0
               /\ existingIds = NaturalKeys(rows)
               /\ KeysUnique(rows) )
             => /\ KeysUnique(rows')
                /\ status' = <<"added", Len(rows') - Len(rows),
                               Len(out.profiles) - (Len(rows') - Len(rows))>>
      ]_vars

\* C8: every row an extraction merge or a file import appends (no other
\* step lengthens the table) is unverified when appended and carries an id
\* the generator has just produced.
C8_AppendedRowsAreFresh ==
    [][\A j \in (Len(rows) + 1)..Len(rows') :
         /\ rows'[j].checkStatus = "unverified"
         /\ rows'[j]._internal_id \in GenIds]_vars

\* The rows the grid shows.
Visible == filteredData(rows, grid.activeFilters, grid.uniqueColumns)

\* C9: no two visible rows share a normalized value in a unique-only column.
C9_VisibleRowsAreUnique ==
    \A col \in grid.uniqueColumns :
        \A i, j \in 1..Len(Visible) :
            i # j => Normalize(CellOf(Visible[i], col))
                       # Normalize(CellOf(Visible[j], col))

\* Unique-only mode is on for two columns and hides a row that passes the
\* value filters.
C9_Witness ==
    /\ grid.uniqueColumns = {"username", "douyinId"}
    /\ Len(Visible) = 1
    /\ Len(rows) = 2
    /\ \A i \in 1..Len(rows) : PassesFilters(rows[i], grid.activeFilters)

\* C10: every visible row's normalized value in a restricted column is in
\* the column's allowed set, and without a unique-only column every hidden
\* row has a normalized value outside the allowed set of a restricted column.
C10_FiltersDecideVisibility ==
    /\ \A i \in 1..Len(Visible) :
         \A col \in DOMAIN grid.activeFilters :
            Normalize(CellOf(Visible[i], col)) \in grid.activeFilters[col]
    /\ grid.uniqueColumns = {}
         => Visible = SelectSeq(rows, LAMBDA row :
                \A col \in DOMAIN grid.activeFilters :
                    Normalize(CellOf(row, col)) \in grid.activeFilters[col])

\* A value filter shows a row whose cell matches only once trimmed and
\* hides the other row.
C10_Witness ==
    /\ grid.uniqueColumns = {}
    /\ "username" \in DOMAIN grid.activeFilters
    /\ Len(rows) = 2 /\ Len(Visible) = 1
    /\ Visible[1].username = <<"a", " ">>

\* Whether sub is table with some rows left out, the others in their order.
IsSubsequence(sub, table) ==
    \E f \in [1..Len(sub) -> 1..Len(table)] :
        /\ \A i \in 1..Len(sub) : table[f[i]] = sub[i]
        /\ \A i, j \in 1..Len(sub) : i < j => f[i] < f[j]

\* C11: the visible rows are rows of the backing store in the order of the
\* backing store, and no filter operation (open or cancel the menu, tick a
\* value, apply a value filter, toggle unique-only) changes the backing
\* store.
C11_FiltersLeaveBackingStore ==
    /\ [](IsSubsequence(Visible, rows))
    /\ [][NextFilterMenu({"username", "douyinId"}) => rows' = rows]_vars

\* After a unique-only toggle both rows of a table whose rows differ are
\* visible.
C11_Witness ==
    /\ grid.uniqueColumns = {"douyinId"}
    /\ Len(rows) = 2 /\ Len(Visible) = 2
    /\ rows[1].username = <<"a">> /\ rows[2].username = NULL
    /\ grid.openFilterHeader = NoHeader

\* C12: enabling unique-only on a column removes the value restriction of
\* that column and leaves the restrictions of the other columns and the
\* unique-only status of the other columns; disabling it changes no value
\* restriction.
C12_UniqueToggleTouchesItsColumn ==
    [][handleToggleUniqueMode =>
         LET c == grid.openFilterHeader
             others == {"username", "douyinId"} \ {c}
         IN  /\ \A o \in others :
                   o \in grid'.uniqueColumns <=> o \in grid.uniqueColumns
             /\ \A o \in others :
                   /\ o \in DOMAIN grid'.activeFilters
                        <=> o \in DOMAIN grid.activeFilters
                   /\ o \in DOMAIN grid.activeFilters
                        => grid'.activeFilters[o] = grid.activeFilters[o]
             /\ IF c \in grid.uniqueColumns
                THEN /\ c \notin grid'.uniqueColumns
                     /\ grid'.activeFilters = grid.activeFilters
                ELSE /\ c \in grid'.uniqueColumns
                     /\ c \notin DOMAIN grid'.activeFilters]_vars

\* Unique-only is on for 用户名, which has no value restriction, next to a
\* restriction of 抖音号 that hides a row.
C12_Witness ==
    /\ grid.uniqueColumns = {"username"}
    /\ DOMAIN grid.activeFilters = {"douyinId"}
    /\ grid.openFilterHeader = NoHeader
    /\ Len(rows) = 2 /\ Len(Visible) = 1
    /\ grid.tempFilterSelection # AllValues(rows, "username")

\* Neither a value restriction nor a unique-only column is in force.
FilterStateEmpty(g) == g.activeFilters = EmptyMap /\ g.uniqueColumns = {}

\* C13: the filter state (restriction map and unique-only set) is reset to
\* empty only by a file import or by the user clearing the table: a step
\* that is no operation of the filter menu and empties a filter state that
\* was not empty is one of these two, and a cell edit leaves the filter
\* state as it was.
C13_OnlyImportAndClearResetFilters ==
    [][ /\ ( /\ ~FilterStateEmpty(grid)
             /\ FilterStateEmpty(grid')
             /\ ~NextFilterMenu({"bio"}) )
           => (ImportFile(SheetHeaderRows) \/ resetDatabase)
        /\ CellEdit({"username"}) =>
             /\ grid'.activeFilters = grid.activeFilters
             /\ grid'.uniqueColumns = grid.uniqueColumns
      ]_vars

\* C14: an export writes exactly the rows of the filtered view, in the
\* view's order and in the order of the headers, never a row the filter
\* hides, and writes the 状态 cell as the label shown (已验证 for a verified
\* row, 待检查 otherwise), not as the checkStatus value.
C14_ExportWritesTheView ==
    [][ (handleExport /\ Len(Visible) > 0) =>
          /\ Len(exportFile') = Len(Visible) + 1
          /\ exportFile'[1] = HEADERS
          /\ \A i \in 1..Len(Visible) :
               LET written == exportFile'[i + 1]
                   row == Visible[i]
               IN  /\ Len(written) = Len(HEADERS)
                   /\ written[1] = IF row.checkStatus = "verified"
                                   THEN LabelVerified ELSE LabelPending
                   /\ \A k \in 2..Len(HEADERS) : written[k] = row[HEADERS[k]]
      ]_vars

\* A file was written of a view that hides a row of the table and shows a
\* verified one.
C14_Witness ==
    /\ Len(exportFile) = 2
    /\ exportFile[2][1] = LabelVerified
    /\ Len(rows) = 2

C16_IdsAreUnique ==
    /\ \A i, j \in 1..Len(rows) :
          i # j => rows[i]._internal_id # rows[j]._internal_id
    /\ \A i, j \in 1..Len(project.rows) :
          i # j => project.rows[i]._internal_id # project.rows[j]._internal_id

\* C17: a row's internalId stays as assigned and no header name reaches a
\* bookkeeping key: the rows an import appends carry the ids generated for
\* them and the checkStatus the program set, whatever the header row of
\* the file, and a cell edit, a price update applied and a cell edit of
\* the price sheet leave the internalId of every row.
C17_BookkeepingKeysAreSafe ==
    [][ /\ \A jsonData \in Files(FileHeaderRows),
              genIds \in [2..MaxFileRows + 1 -> GenIds] :
             ImportFileOf(jsonData, genIds) =>
               \A j \in (Len(rows) + 1)..Len(rows') :
                  /\ \E i \in DOMAIN genIds : rows'[j]._internal_id = genIds[i]
                  /\ rows'[j].checkStatus = "unverified"
        /\ CellEdit(EditableColumns) =>
             \A i \in 1..Len(rows) :
                rows'[i]._internal_id = rows[i]._internal_id
        /\ (handleSubmit \/ SheetCellEdit({1}, "Port" :> {<<"X">>})) =>
             \A i \in 1..Len(project.rows) :
                project'.rows[i]["_internal_id"] = project.rows[i]["_internal_id"]
      ]_vars

\* The headers of the sheet are pairwise distinct.
HeadersDistinct(headers) ==
    \A i, j \in 1..Len(headers) : i # j => headers[i] # headers[j]

\* C18: the header list a file import produces holds no two equal names,
\* for every header row.
C18_ImportedHeadersAreDistinct == HeadersDistinct(project.headers)

\* The normalised form of a key or of a port code: trimmed and upper-cased.
NormalForm(str) == ToUpperCase(Trim(str))

\* The row's key column holds a value, and it equals, normalised, a port
\* code of the record.
RowMatches(row, record, mapping) ==
    LET key == CellOf(row, mapping["port"])
    IN  /\ key # UNDEFINED /\ key # NULL
        /\ \E j \in 1..Len(record.ports) :
              NormalForm(StringOf(key)) = NormalForm(record.ports[j])

\* The extracted value is present and numeric: a number, or a numeral.
PresentNumeric(val) ==
    \/ IsNum(val)
    \/ /\ val # UNDEFINED /\ val # NULL /\ Trim(val) # EMPTY
       /\ \A n \in 1..Len(Trim(val)) :
             \E d \in 1..Len(Digits) : Digits[d] = Trim(val)[n]

NumericValue(val) == IF IsNum(val) THEN val[2] ELSE DigitsValue(Trim(val))

\* The tiers of the record that yield an update.
YieldingTiers(record, mapping) ==
    {t \in 1..Len(TIERS) :
        /\ mapping[TierKeys[t]] # ""
        /\ PresentNumeric(CellOf(record.prices, TIERS[t]))}

\* v, v + value, v - value
AdjustedValue(v, rule) ==
    IF rule.mode = "add" THEN v + rule.value
    ELSE IF rule.mode = "subtract" THEN v - rule.value
    ELSE v

\* updates holds exactly the columns of the yielding tiers, each with the
\* adjusted value of its tier.
UpdatesAsStated(updates, record, mapping, adjustments) ==
    /\ DOMAIN updates =
         {mapping[TierKeys[t]] : t \in YieldingTiers(record, mapping)}
    /\ \A t \in YieldingTiers(record, mapping) :
          updates[mapping[TierKeys[t]]] =
            Num(AdjustedValue(NumericValue(CellOf(record.prices, TIERS[t])),
                              adjustments[TierKeys[t]]))

\* The previews are those the statement gives for the response.
PreviewsAsStated(previews, apiData, currentData, mapping, adjustments) ==
    /\ \A i \in 1..Len(currentData) :
          (\E n \in 1..Len(previews) :
              previews[n].rowId = currentData[i]["_internal_id"])
          <=> (\E r \in 1..Len(apiData) :
                 /\ RowMatches(currentData[i], apiData[r], mapping)
                 /\ YieldingTiers(apiData[r], mapping) # {})
    /\ \A n \in 1..Len(previews), i \in 1..Len(currentData) :
          previews[n].rowId = currentData[i]["_internal_id"] =>
            \E r \in 1..Len(apiData) :
               /\ RowMatches(currentData[i], apiData[r], mapping)
               /\ UpdatesAsStated(previews[n].updates, apiData[r], mapping,
                                  adjustments)

\* C19: generatePreviews emits a preview for a row exactly when the row's
\* key, trimmed and upper-cased, equals the trimmed upper-cased form of a
\* port code of an extracted record and a tier yields an update; the updates
\* of the preview are exactly the mapped columns of the tiers whose extracted
\* value is present and numeric, each with v, v + value or v - value.
C19_PreviewsFollowTheMatch ==
    [][\A out \in PreviewOutcomes :
          (out.kind = "ok" /\ FinishParseOf(out)) =>
             PreviewsAsStated(updater'.previews, out.parsed,
                              updater.closure.currentData,
                              updater.closure.mapping,
                              updater.closure.adjustments)]_vars

\* C20: a column is in a row's highlight set only if the last write to that
\* cell was an automated price update: a column enters the set only in the
\* step that applies the previews, and only as a column a preview writes; a
\* manual edit of a cell leaves its column out of the row's set; after a file
\* import no row has a column in its set.
C20_HighlightsAreAutomatedWrites ==
    [][ /\ \A column \in DOMAIN HighlightEdits :
             \A value \in HighlightEdits[column] :
                SheetCellEditOf(1, column, value) =>
                   column \notin HighlightsOf(project'.rows[1])
        /\ (ImportSheet({"Port", "P45"}, {1}) /\ project' # project) =>
             \A i \in 1..Len(project'.rows) :
                HighlightsOf(project'.rows[i]) = {}
        /\ \A i \in 1..Len(project'.rows) :
             (/\ i <= Len(project.rows)
              /\ project'.rows[i]["_internal_id"] = project.rows[i]["_internal_id"]
              /\ HighlightsOf(project'.rows[i]) # HighlightsOf(project.rows[i])
              /\ HighlightsOf(project.rows[i]) \subseteq HighlightsOf(project'.rows[i]))
             => /\ handleSubmit
                /\ \A column \in HighlightsOf(project'.rows[i])
                                   \ HighlightsOf(project.rows[i]) :
                      \E n \in 1..Len(updater.previews) :
                         /\ updater.previews[n].rowId = project.rows[i]["_internal_id"]
                         /\ column \in DOMAIN updater.previews[n].updates
      ]_vars

\* C21: a missing key or a missing port column is found before any request:
\* every step that issues a request (of the extraction, of the relevance
\* pass, of the price parse) starts with the key entered and, for the parse,
\* with the port column mapped; and handleParse run without a key or without
\* a port column leaves the sheet and the wizard step.
C21_NoRequestWithoutConfiguration ==
    [][ /\ (pc = "idle" /\ pc' # "idle") => apiKey # EMPTY
        /\ (updater.closure = NoClosure /\ updater'.closure # NoClosure) =>
              /\ updater.apiKey # EMPTY
              /\ updater.mapping["port"] # ""
        /\ (/\ handleParse
            /\ updater.apiKey = EMPTY \/ updater.mapping["port"] = "") =>
              /\ project' = project
              /\ updater'.step = updater.step
              /\ updater'.closure = NoClosure /\ ~updater'.isLoading
        /\ (apiKey = EMPTY /\ (StartInitialCleaning \/ handleRelevanceCleaning))
              => rows' = rows /\ pc' = "idle"
      ]_vars

\* handleParse found the port column missing and opened the mapping panel:
\* no request is in flight, the wizard is at step 1.
C21_Witness ==
    /\ updater.showConfig
    /\ updater.image /\ updater.apiKey # EMPTY
    /\ updater.mapping["port"] = ""
    /\ updater.closure = NoClosure /\ ~updater.isLoading
    /\ updater.step = 1

\* The lines of the text being extracted.
TextLines == SplitLines(inputText)

\* The lines of a range, as a set of line numbers from 0.
LinesOf(range) == range.start..(range.end - 1)

\* The chunks emitted are those the statement gives for N lines, chunk size
\* C and overlap O.
ChunksAsStated(chunks, N, C, O) ==
    /\ \A i \in 0..(Len(chunks) - 1) :
          /\ chunks[i + 1].start = i * (C - O)
          /\ chunks[i + 1].end = Min(i * (C - O) + C, N)
          /\ chunks[i + 1].start < chunks[i + 1].end
          /\ chunks[i + 1].end >= N => i + 1 = Len(chunks)
    /\ UNION {LinesOf(chunks[i]) : i \in 1..Len(chunks)} = 0..(N - 1)
    /\ \A i \in 1..(Len(chunks) - 1) :
          Cardinality(LinesOf(chunks[i]) \cap LinesOf(chunks[i + 1])) = O

\* No range of the chunker's loop is blank: chunk i exists when i = 0 or
\* chunk i - 1 ends before the last line.
NoBlankRange(lines, C, O) ==
    \A i \in 0..(Len(lines) - 1) :
       (i = 0 \/ (i - 1) * (C - O) + C < Len(lines)) =>
          \E l \in (i * (C - O) + 1)..Min(i * (C - O) + C, Len(lines)) :
             ~IsBlank(lines[l])

\* C22 as stated: for any text of N lines, chunk i covers the lines
\* [i*(C-O), min(i*(C-O)+C, N)), the chunks cover [0, N), consecutive chunks
\* share exactly O lines and the chunk whose end reaches N is the last.
C22_ChunksOfAnyText ==
    pc = "chunks" =>
       ChunksAsStated(extraction.chunks, Len(TextLines),
                      extraction.chunkSize, extraction.overlap)

\* C22 amended: the same of any text none of whose chunk ranges is blank.
C22_ChunksOfTextWithoutBlankRange ==
    (/\ pc = "chunks"
     /\ NoBlankRange(TextLines, extraction.chunkSize, extraction.overlap)) =>
       ChunksAsStated(extraction.chunks, Len(TextLines),
                      extraction.chunkSize, extraction.overlap)

\* Four lines of text in chunks of two lines that overlap by one: three
\* chunks.
C22_Witness ==
    /\ pc = "chunks"
    /\ Len(TextLines) = 4 /\ \A l \in 1..4 : ~IsBlank(TextLines[l])
    /\ extraction.chunkSize = 2 /\ extraction.overlap = 1
    /\ Len(extraction.chunks) = 3
    /\ extraction.chunks[3] = [start |-> 2, end |-> 4]

\* ceil(a / b) for b > 0
Ceil(a, b) == 0 - ((0 - a) \div b)

\* C28 as stated: for any text of N lines the chunker emits
\* ceil((N-O)/(C-O)) chunks, also when 0 < N <= O.
C28_ChunkCountOfAnyText ==
    pc = "chunks" =>
       Len(extraction.chunks) =
          Ceil(Len(TextLines) - extraction.overlap,
               extraction.chunkSize - extraction.overlap)

\* C28 amended: of a text none of whose chunk ranges is blank the chunker
\* emits ceil((N-O)/(C-O)) chunks when N > O and one chunk when 0 < N <= O.
C28_ChunkCount ==
    (/\ pc = "chunks"
     /\ NoBlankRange(TextLines, extraction.chunkSize, extraction.overlap)) =>
       Len(extraction.chunks) =
          IF Len(TextLines) > extraction.overlap
          THEN Ceil(Len(TextLines) - extraction.overlap,
                    extraction.chunkSize - extraction.overlap)
          ELSE 1

\* A text of one line chunked with an overlap of two lines: one chunk.
C28_Witness ==
    /\ pc = "chunks"
    /\ Len(TextLines) = 1 /\ extraction.overlap = 2
    /\ extraction.chunks = <<[start |-> 0, end |-> 1]>>

\* The records of the chunks that succeeded, in the order of the chunks.
RECURSIVE RecordsOf(_)
RecordsOf(log) ==
    IF log = <<>> THEN <<>>
    ELSE (IF Head(log).kind = "ok" THEN Head(log).profiles ELSE <<>>)
           \o RecordsOf(Tail(log))

\* C23: a chunk that fails never aborts the extraction: every response,
\* failed or not, is followed by the request of the next chunk while chunks
\* remain, and after the last chunk every record of a chunk that succeeded
\* is in the table, as a new row or as a key the table held at the start or
\* an earlier record brought; no other row is added.
C23_FailedChunkIsSkipped ==
    [][ (pc = "chunks" /\ extraction' # extraction) =>
          LET log == extraction'.log
              recs == RecordsOf(log)
              added == {j \in 1..Len(rows') : j > Len(rows)}
          IN  /\ Len(log) = Len(extraction.log) + 1
              /\ extraction'.chunks = extraction.chunks
              /\ Len(log) < Len(extraction.chunks) =>
                    pc' = "chunks" /\ isLoading' /\ rows' = rows
              /\ Len(log) = Len(extraction.chunks) =>
                    /\ pc' = "idle"
                    /\ \A n \in 1..Len(recs) :
                          \/ Trim(recs[n].douyinId) \in existingIds
                          \/ \E j \in added :
                                rows'[j].douyinId = recs[n].douyinId
                    /\ \A j \in added :
                          \E n \in 1..Len(recs) :
                             rows'[j].douyinId = recs[n].douyinId
                    /\ Cardinality(added) <= Len(recs)
      ]_vars

\* An extraction of two chunks or more is over: the first chunk failed, the
\* second gave a record, and the table holds it.
C23_Witness ==
    /\ pc = "idle"
    /\ Len(extraction.chunks) >= 2
    /\ Len(extraction.log) = Len(extraction.chunks)
    /\ extraction.log[1].kind = "failed"
    /\ extraction.log[2].kind = "ok" /\ Len(extraction.log[2].profiles) = 1
    /\ \E i \in 1..Len(rows) :
          rows[i].douyinId = extraction.log[2].profiles[1].douyinId

\* The ids of a sequence of rows still in a table.
StillIn(batch, table) ==
    {batch[i]._internal_id : i \in 1..Len(batch)}
       \cap {table[j]._internal_id : j \in 1..Len(table)}

C25_ResponseWithoutListIsAFailure ==
    [][ \A out \in FilterOutcomes :
          (out.kind = "noarray" /\ FinishRelevanceCleaningOf(out)) =>
             /\ Len(rows') = Len(rows)
             /\ \A i \in 1..Len(rows) :
                   /\ rows'[i]._internal_id = rows[i]._internal_id
                   /\ rows'[i].checkStatus = rows[i].checkStatus
             /\ status' = <<"Error">>
      ]_vars

\* C26: OK on the menu of a column removes the column's entry from the
\* restrictions exactly when the working selection is the set of the
\* distinct normalized values of the column in the data, and stores the
\* selection as the column's entry otherwise.
C26_AppliedSelection ==
    [][ applyFilter =>
          LET header == grid.openFilterHeader
              selection == grid.tempFilterSelection
              restricted == header \in DOMAIN grid'.activeFilters
          IN  /\ ~restricted <=> selection = AllValues(rows, header)
              /\ restricted => grid'.activeFilters[header] = selection
      ]_vars

\* The rows of the table shown by the grid, by their place in the table.
Shown(i) ==
    \E j \in 1..Len(Visible) : Visible[j]._internal_id = rows[i]._internal_id

SameValue(i, k, col) ==
    Normalize(CellOf(rows[i], col)) = Normalize(CellOf(rows[k], col))

\* C27: unique-only mode works on the rows that passed the value filters
\* alone: a shown row passed them; with one unique-only column, the first
\* row that passes them with its value of that column is shown, whatever
\* the rows before it that did not pass; and a row that passed them and is
\* not shown has, in some unique-only column, the value of a shown row
\* before it.
C27_UniqueAfterValueFilters ==
    \A i \in 1..Len(rows) :
       LET passes(k) == PassesFilters(rows[k], grid.activeFilters)
       IN  /\ Shown(i) => passes(i)
           /\ \A col \in grid.uniqueColumns :
                 (/\ grid.uniqueColumns = {col}
                  /\ passes(i)
                  /\ \A k \in 1..(i - 1) : passes(k) => ~SameValue(i, k, col))
                 => Shown(i)
           /\ (passes(i) /\ ~Shown(i)) =>
                 \E col \in grid.uniqueColumns, k \in 1..(i - 1) :
                    Shown(k) /\ SameValue(i, k, col)

\* One column is unique-only; the first row is hidden by a value filter and
\* the second, which has the first row's value of that column, is shown.
C27_Witness ==
    /\ Len(rows) = 2
    /\ \E col \in grid.uniqueColumns :
          grid.uniqueColumns = {col} /\ SameValue(1, 2, col)
    /\ ~PassesFilters(rows[1], grid.activeFilters)
    /\ Shown(2)

\* What the claim has a recovery make of a reply: the object of a reply that
\* holds one, and otherwise an error that carries the reply as it came.
RecoveredAsStated(reply, result) ==
    /\ reply.expected # NoObject =>
          result = [kind |-> "ok", value |-> reply.expected]
    /\ result.kind # "ok" =>
          /\ "rawResponse" \in DOMAIN result
          /\ result.rawResponse = reply.content

\* C29: either recovery returns the object of a reply made of prose or
\* none, a fence or none, one object, a closing fence or none and prose or
\* none, and raises an error that carries the reply unchanged when it
\* recovers nothing.
C29_ReplyIsRecovered ==
    /\ extraction.safe # Pending => RecoveredAsStated(extraction, extraction.safe)
    /\ extraction.plain # Pending => RecoveredAsStated(extraction, extraction.plain)

\* C30: the extraction merge rejects against the keys the table holds when
\* the merge is applied, whatever the table held when the request was
\* issued: the rows appended are the records whose trimmed key is empty or
\* is neither a key of the table at that moment nor the key of a record
\* admitted earlier in the batch.
C30_MergeSeesTheTableAsItIs ==
    [][\A out \in ExtractOutcomes({EMPTY, <<"a">>}),
          genIds \in [1..MaxBatch -> GenIds] :
         ( /\ FinishInitialCleaningOf(out, genIds)
           /\ out.kind = "ok" /\ Len(out.profiles) > 0 )
         => LET admitted == Admitted(rows, out.profiles)
            IN  /\ Len(rows') = Len(rows) + Len(admitted)
                /\ \A n \in 1..Len(admitted) :
                     rows'[Len(rows) + n].douyinId = admitted[n].douyinId]_vars
====
